---------------------------- MODULE Spec2Model ----------------------------
(***************************************************************************)
(* Model of the ASPOR document pipeline (aspor-intelligence/backend).      *)
(*                                                                         *)
(* State: the DynamoDB run table, the S3 blobs extracted/<runId>.txt and   *)
(* analysis/<runId>.txt, and one process per Lambda invocation: the        *)
(* extraction handlers (extract_lambda, extract_lambda_backup,             *)
(* extract_lambda_v2), the analysis handlers (analyze_lambda,              *)
(* analyze_lambda_improved, analyze_lambda_final, analyze_lambda_async)    *)
(* and the background worker process_async_lambda.                         *)
(*                                                                         *)
(* One step of a process is one access to the table (possibly preceded by  *)
(* the OCR / generation-service / blob calls the code makes before it), so *)
(* that every interleaving of table reads and writes of concurrent         *)
(* invocations is explored.  OCR, generation service and blob store may    *)
(* fail or hang, the Lambda invoke API may fail; the record store is taken *)
(* to be available (its calls return).                                     *)
(*                                                                         *)
(* A text is abstracted to [kind, len, pad]: what produced it, its length  *)
(* in characters, and how many of them str.strip() removes.  A file key is *)
(* abstracted to its extension.                                            *)
(***************************************************************************)
EXTENDS Integers, Sequences, FiniteSets, TLC

VARIABLES table, extracted, analysis, x, a, w, genCalls, dispatches

vars == <<table, extracted, analysis, x, a, w, genCalls, dispatches>>

Min(m, n) == IF m < n THEN m ELSE n

(***************************************************************************)
(* Bounds of the model.                                                    *)
(***************************************************************************)
MaxRequests == 2

(***************************************************************************)
(* Program constants.                                                      *)
(***************************************************************************)
LambdaTimeoutS == 29

TextCap == 15000

MarkerLen == 43

PlaceholderLen == 100

DocxMessageLen == 70

ApologyLen == 124

ErrorPrefixLen == 41

ErrorCap == 500

(***************************************************************************)
(* Identifiers.                                                            *)
(***************************************************************************)
Runs == {"r1"}

UnknownRun == "r0"

RunIds == Runs \cup {UnknownRun}

Requests == 1..MaxRequests

\* who minted the sort key RUN#<timestamp>#<runId>: the extraction (0) or an
\* analysis request that found no record
Minters == 0..MaxRequests

Keys == [run : RunIds, by : Minters]

ExtractKey(r) == [run |-> r, by |-> 0]

\* the users of the table's partitions; a request without userId is made by
\* 'web-user'
Users == {"web-user", "u2"}

DefaultUser == "web-user"

(***************************************************************************)
(* Texts and error messages.                                               *)
(***************************************************************************)
NoText == [kind |-> "absent", len |-> 0, pad |-> 0]

MkText(k, l, p) == [kind |-> k, len |-> l, pad |-> p]

Len0(t) == t.len

StripLen(t) == t.len - t.pad

Falsy(t) == t.kind = "absent" \/ t.len = 0

StartsWithError(t) == t.kind = "errorText"

Slice(t, n) == IF t.len > n THEN [t EXCEPT !.len = n, !.pad = 0] ELSE t

NoErr == [kind |-> "none", len |-> 0]

MkErr(k, l) == [kind |-> k, len |-> l]

SliceErr(e, n) == [e EXCEPT !.len = Min(e.len, n)]

Placeholder == MkText("placeholder", PlaceholderLen, 0)

DocxMessage == MkText("docx", DocxMessageLen, 0)

Apology == MkText("apology", ApologyLen, 0)

ErrorText(e) == MkText("errorText", ErrorPrefixLen + e.len, 0)


(***************************************************************************)
(* The run table.  An item is addressed by its primary key (pk, sk); the   *)
(* index runId-index finds the items that carry a runId attribute.  pk is  *)
(* the user of 'USER#<userId>', sk the time of 'RUN#<timestamp>#<runId>',  *)
(* counted in ticks of half a second.                                      *)
(***************************************************************************)
NoItem ==
    [exists |-> FALSE, pk |-> "none", sk |-> 0,
     runId |-> "none", status |-> "none", fileKey |-> "none",
     textKey |-> "none", textExtracted |-> "none", errorMessage |-> NoErr,
     analysisResult |-> NoText, bedrockResult |-> NoText,
     analysisKey |-> "none", analysisMethod |-> "none",
     extractionMethod |-> "none", processingType |-> "none",
     steps |-> {}]

\* table.put_item: the item is replaced by exactly the attributes given
PutItem(tbl, key, attrs) ==
    [tbl EXCEPT ![key] =
        [f \in DOMAIN NoItem |->
            IF f = "exists" THEN TRUE
            ELSE IF f \in DOMAIN attrs THEN attrs[f] ELSE NoItem[f]]]

\* table.update_item with a SET expression: the attributes given are
\* written, and the item is created when the key does not exist yet
UpdateItem(tbl, key, attrs) ==
    [tbl EXCEPT ![key] =
        [f \in DOMAIN NoItem |->
            IF f = "exists" THEN TRUE
            ELSE IF f \in DOMAIN attrs THEN attrs[f] ELSE tbl[key][f]]]

\* table.query(IndexName='runId-index', runId = run)
Query(tbl, run) == {k \in Keys : tbl[k].exists /\ tbl[k].runId = run}

\* response['Items'][0]
FirstItem(tbl, run) == CHOOSE k \in Query(tbl, run) : TRUE

(***************************************************************************)
(* Inputs: the file extensions a client may upload, the texts and errors   *)
(* the OCR and generation services may answer with, the time the platform  *)
(* reports as remaining.                                                   *)
(***************************************************************************)
OcrText(l) == MkText("ocr", l, IF l = 0 THEN 0 ELSE 1)

VisionText(l) == MkText("vision", l, 0)

AnalysisText(l) == MkText("analysis", l, 0)

Exts == {"pdf", "png", "jpg", "jpeg", "tiff", "bmp", "docx", "txt"}

Images == {"png", "jpg", "jpeg", "tiff", "bmp"}

OcrTexts ==
    {OcrText(l) : l \in {0, 1, 3, 4, 10, 11, 51, 52, 8000, 15001, 20000}}

VisionTexts == {VisionText(l) : l \in {0, 5, 500, 15001}}

RawErrLens == {40, 600}

SvcErrors == {MkErr(k, l) : k \in {"UnsupportedDocumentException", "other"},
                            l \in RawErrLens}

Remaining == {10000, 17000, 25000}

SizesMB10 == {10, 30, 50}

\* outcomes of reading the uploaded document and sending it to the model
VisionOutcomes ==
    {[get |-> "error", sizeMB10 |-> 0, invoke |-> "none", text |-> NoText]}
    \cup {[get |-> "ok", sizeMB10 |-> sz, invoke |-> i, text |-> NoText] :
             sz \in SizesMB10, i \in {"error", "timeout"}}
    \cup {[get |-> "ok", sizeMB10 |-> sz, invoke |-> "ok", text |-> t] :
             sz \in SizesMB10, t \in VisionTexts}

\* what the extraction handlers are given: the extensions of the uploaded
\* files and the answers of the OCR and vision services.  AllDocuments is
\* every case above; SomeDocuments keeps a pdf (which can take every branch
\* of extract_lambda) and a docx, an empty and a non-empty OCR answer, a
\* short and a long error, for the specifications of the analysis side
AllDocuments ==
    [exts |-> Exts, ocr |-> OcrTexts, vision |-> VisionOutcomes,
     errs |-> SvcErrors, users |-> Users]

SomeDocuments ==
    [exts |-> {"pdf", "docx"},
     users |-> {DefaultUser},
     ocr |-> {OcrText(0), OcrText(8000)},
     errs |-> {MkErr("UnsupportedDocumentException", 40), MkErr("other", 600)},
     vision |-> {v \in VisionOutcomes :
                   v.sizeMB10 \in {0, 10} /\ v.text.len \in {0, 500}}]

Raise(e, cs) == [t |-> "raise", err |-> e, text |-> NoText, calls |-> cs]

Got(txt, cs) == [t |-> "text", err |-> NoErr, text |-> txt, calls |-> cs]

Kill(cs) == [t |-> "killed", err |-> NoErr, text |-> NoText, calls |-> cs]

\* the invocation's locals after a vision call with outcome vis on document
\* v: the calls made, and the size of the document once it has been read
AfterVision(p, v, vis) ==
    [p EXCEPT !.calls = @ \cup vis.calls,
              !.sizeMB10 = IF "s3get" \in vis.calls /\ v.get = "ok"
                           THEN v.sizeMB10 ELSE @]

\* the document read again has the size it had at the first read
SameDocument(p, v) ==
    p.sizeMB10 = 0 \/ v.get # "ok" \/ v.sizeMB10 = p.sizeMB10

(***************************************************************************)
(* Invocations.  x[r] is the extraction invocation that mints run id r,    *)
(* a[q] the analysis request q, w[q] the worker that request q dispatched. *)
(***************************************************************************)
NoResp == [code |-> 0, status |-> "none", text |-> NoText, err |-> NoErr]

Resp(c, st, t, e) == [code |-> c, status |-> st, text |-> t, err |-> e]

XIdle == [h |-> "none", pc |-> "idle", ext |-> "none", text |-> NoText,
          err |-> NoErr, first |-> NoErr, attempt |-> 0, method |-> "none",
          textKey |-> "none", avail |-> TRUE, remaining |-> 0,
          sizeMB10 |-> 0, job |-> "none", preflight |-> FALSE,
          calls |-> {}, resp |-> NoResp]

\* the invocation has returned `resp`; its locals are gone
XReturn(p, resp) ==
    [XIdle EXCEPT !.h = p.h, !.pc = "done", !.ext = p.ext,
                  !.calls = p.calls, !.resp = resp]

XKilled(p) ==
    [XIdle EXCEPT !.h = p.h, !.pc = "killed", !.ext = p.ext,
                  !.calls = p.calls]

XFrame == UNCHANGED <<a, w, genCalls, dispatches, analysis>>

NoKey == [run |-> "none", by |-> 0]

\* the text keys a client may name in an analysis request: none, the blob
\* extracted/<runId>.txt of the run, the blob extracted/<id>.txt of another
\* run, a key that does not exist
TextKeys == {"none", "own", "foreign", "missing"}

AnalysisTexts == {AnalysisText(l) : l \in {0, 800, 6000}}

AIdle == [h |-> "none", pc |-> "idle", run |-> "none", tk |-> "none",
          key |-> NoKey, pk |-> "none", sk |-> 0,
          found |-> FALSE, status |-> "none", history |-> <<>>,
          fileKey |-> "none", stored |-> "none", text |-> NoText,
          src |-> "unknown", preflight |-> FALSE,
          slow |-> FALSE, err |-> NoErr, result |-> NoText, resp |-> NoResp]

\* the invocation has returned `resp`; its locals are gone
AReturn(p, resp) ==
    [AIdle EXCEPT !.h = p.h, !.pc = "done", !.run = p.run,
                  !.found = p.found, !.status = p.status, !.resp = resp]

AKilled(p) ==
    [AIdle EXCEPT !.h = p.h, !.pc = "killed", !.run = p.run,
                  !.found = p.found, !.status = p.status]

\* s3.get_object of the text key tk named by a request for run r
GetText(tk, r) ==
    IF tk = "own" THEN extracted[r]
    ELSE IF tk = "foreign" THEN extracted[CHOOSE o \in RunIds : o # r]
    ELSE NoText

Steps(k, names) == table[k].steps \cup names

\* datetime.utcnow() of a handler that makes a sort key: later than the time
\* of every sort key made before
Now ==
    LET made == {table[k].sk : k \in Keys} \cup {a[q].sk : q \in Requests}
    IN  1 + CHOOSE t \in made : \A o \in made : o <= t

(***************************************************************************)
(* extract_lambda.py                                                       *)
(***************************************************************************)
V1MaxTries == 30

V1DelayS == 2

\* lines 166-168: the placeholder replaces an empty extraction
V1Validate(t) == IF Falsy(t) \/ StripLen(t) = 0 THEN Placeholder ELSE t

\* lines 215-221: user-facing messages
V1Translate(e) ==
    IF e.kind = "UnsupportedDocumentException" THEN MkErr("translated", 132)
    ELSE IF e.kind = "InvalidParameterException" THEN MkErr("translated", 85)
    ELSE IF e.kind = "ProvisionedThroughputExceededException"
         THEN MkErr("translated", 90)
    ELSE e

\* lines 74-96: the run id is minted and the record created as EXTRACTING
extract_lambda_put_item(r, d) ==
    /\ x[r].pc = "idle"
    /\ \E ext \in d.exts, u \in d.users :
         /\ table' = PutItem(table, ExtractKey(r),
                [pk |-> u, sk |-> Now,
                 runId |-> r, status |-> "EXTRACTING", fileKey |-> ext])
         /\ x' = [x EXCEPT ![r] =
                [XIdle EXCEPT !.h = "extract_lambda", !.ext = ext,
                     !.pc = IF ext = "pdf" THEN "start"
                            ELSE IF ext = "docx" THEN "save" ELSE "detect",
                     !.text = IF ext = "docx" THEN DocxMessage ELSE NoText]]
    /\ UNCHANGED extracted
    /\ XFrame

\* variant of extract_lambda_start_document_analysis that returns None for
\* every ClientError
start_document_analysis_swallowing(r, d) ==
    /\ x[r].h = "extract_lambda" /\ x[r].pc = "start"
    /\ \/ x' = [x EXCEPT ![r].pc = "poll", ![r].calls = @ \cup {"start"}]
       \/ \E e \in d.errs :
            x' = [x EXCEPT ![r].calls = @ \cup {"start"},
                           ![r].pc = "analyze", ![r].first = e]
    /\ UNCHANGED <<table, extracted>>
    /\ XFrame

\* start_document_analysis (lines 17-33); `first` is the ClientError caught
\* at line 29 when the function returns None
extract_lambda_start_document_analysis(r, d) ==
    /\ x[r].h = "extract_lambda" /\ x[r].pc = "start"
    /\ \/ x' = [x EXCEPT ![r].pc = "poll", ![r].calls = @ \cup {"start"}]
       \/ \E e \in d.errs :
            x' = [x EXCEPT ![r].calls = @ \cup {"start"},
                     ![r].pc = IF e.kind = "UnsupportedDocumentException"
                               THEN "analyze" ELSE "fail",
                     ![r].first = IF e.kind = "UnsupportedDocumentException"
                                  THEN e ELSE NoErr,
                     ![r].err = IF e.kind = "UnsupportedDocumentException"
                                THEN NoErr ELSE e]
    /\ UNCHANGED <<table, extracted>>
    /\ XFrame

\* get_document_analysis (lines 35-51): one poll of the loop; the platform
\* ends the invocation once the loop has slept for the Lambda timeout
extract_lambda_get_document_analysis(r, d) ==
    /\ x[r].h = "extract_lambda" /\ x[r].pc = "poll"
    /\ IF x[r].attempt * V1DelayS >= LambdaTimeoutS
       THEN x' = [x EXCEPT ![r] = XKilled(x[r])]
       ELSE IF x[r].attempt >= V1MaxTries
       THEN x' = [x EXCEPT ![r].pc = "fail", ![r].err = MkErr("other", 22),
                           ![r].job = "timeout"]
       ELSE \/ \E t \in d.ocr :
                 x' = [x EXCEPT ![r].pc = "save", ![r].text = t,
                                ![r].job = "SUCCEEDED",
                                ![r].calls = @ \cup {"poll"}]
            \/ \E l \in RawErrLens :
                 x' = [x EXCEPT ![r].pc = "fail",
                                ![r].err = MkErr("other", 21 + l),
                                ![r].job = "FAILED",
                                ![r].calls = @ \cup {"poll"}]
            \/ \E e \in d.errs :
                 x' = [x EXCEPT ![r].pc = "fail", ![r].err = e,
                                ![r].job = "ClientError",
                                ![r].calls = @ \cup {"poll"}]
            \/ x' = [x EXCEPT ![r].attempt = @ + 1,
                              ![r].calls = @ \cup {"poll"}]
    /\ UNCHANGED <<table, extracted>>
    /\ XFrame

\* lines 110-135: analyze_document with TABLES and FORMS; `first` is the
\* exception caught at line 122 while detect_document_text is tried
extract_lambda_analyze_document(r, d) ==
    /\ x[r].h = "extract_lambda" /\ x[r].pc = "analyze"
    /\ \/ \E t \in d.ocr :
            x' = [x EXCEPT ![r].pc = "save", ![r].text = t,
                           ![r].first = NoErr,
                           ![r].calls = @ \cup {"analyze"}]
       \/ \E e \in d.errs :
            x' = [x EXCEPT ![r].calls = @ \cup {"analyze"},
                     ![r].pc = IF e.kind = "UnsupportedDocumentException"
                               THEN "detect" ELSE "fail",
                     ![r].first = IF e.kind = "UnsupportedDocumentException"
                                  THEN e ELSE NoErr,
                     ![r].err = IF e.kind = "UnsupportedDocumentException"
                                THEN NoErr ELSE e]
    /\ UNCHANGED <<table, extracted>>
    /\ XFrame

\* lines 124-133, 137-147, 154-164: detect_document_text
extract_lambda_detect_document_text(r, d) ==
    /\ x[r].h = "extract_lambda" /\ x[r].pc = "detect"
    /\ \/ \E t \in d.ocr :
            x' = [x EXCEPT ![r].pc = "save", ![r].text = t,
                           ![r].first = NoErr,
                           ![r].calls = @ \cup {"detect"}]
       \/ \E e \in d.errs :
            x' = [x EXCEPT ![r].pc = "fail", ![r].err = e,
                           ![r].first = NoErr,
                           ![r].calls = @ \cup {"detect"}]
    /\ UNCHANGED <<table, extracted>>
    /\ XFrame

\* lines 166-177: validation and s3.put_object of extracted/<runId>.txt
extract_lambda_put_object(r, d) ==
    /\ x[r].h = "extract_lambda" /\ x[r].pc = "save"
    /\ \/ /\ extracted' = [extracted EXCEPT ![r] = V1Validate(x[r].text)]
          /\ x' = [x EXCEPT ![r].pc = "mark",
                            ![r].text = V1Validate(x[r].text),
                            ![r].textKey = "extracted"]
       \/ /\ \E l \in RawErrLens :
               x' = [x EXCEPT ![r].pc = "fail", ![r].err = MkErr("other", l),
                              ![r].calls = @ \cup {"put_error"}]
          /\ UNCHANGED extracted
    /\ UNCHANGED table
    /\ XFrame

\* lines 179-209: the record becomes EXTRACTED
extract_lambda_update_extracted(r, d) ==
    /\ x[r].h = "extract_lambda" /\ x[r].pc = "mark"
    /\ table' = UpdateItem(table, ExtractKey(r),
           [status |-> "EXTRACTED", textExtracted |-> "caracteres",
            textKey |-> x[r].textKey])
    /\ x' = [x EXCEPT ![r] =
                XReturn(x[r], Resp(200, "EXTRACTED", x[r].text, NoErr))]
    /\ UNCHANGED extracted
    /\ XFrame

\* lines 211-249: the record becomes FAILED
extract_lambda_update_failed(r, d) ==
    /\ x[r].h = "extract_lambda" /\ x[r].pc = "fail"
    /\ table' = UpdateItem(table, ExtractKey(r),
           [status |-> "FAILED", errorMessage |-> V1Translate(x[r].err)])
    /\ x' = [x EXCEPT ![r] =
                XReturn(x[r], Resp(500, "none", NoText, V1Translate(x[r].err)))]
    /\ UNCHANGED extracted
    /\ XFrame

extract_lambda(r, d) ==
    \/ extract_lambda_start_document_analysis(r, d)
    \/ extract_lambda_get_document_analysis(r, d)
    \/ extract_lambda_analyze_document(r, d)
    \/ extract_lambda_detect_document_text(r, d)
    \/ extract_lambda_put_object(r, d)
    \/ extract_lambda_update_extracted(r, d)
    \/ extract_lambda_update_failed(r, d)

(***************************************************************************)
(* extract_lambda_backup.py                                                *)
(***************************************************************************)
BkMaxTries == 5

BkMinText == 10

BkVisionMaxMB10 == 20

BkAsyncThresholdMs == 15000

BkReadTimeoutMs == 20000

\* process_with_bedrock_vision (lines 111-189); v is the outcome of the
\* document read and of the model call, remaining the invocation time left
process_with_bedrock_vision(v, available, remaining, errlen) ==
    IF ~available THEN Raise(MkErr("bedrock", 33), {})
    ELSE IF v.get # "ok" THEN Raise(MkErr("other", 48 + errlen), {"s3get"})
    ELSE IF v.sizeMB10 > BkVisionMaxMB10
         THEN Raise(MkErr("other", 48 + 48), {"s3get"})
    ELSE IF v.invoke = "timeout" /\ remaining < BkReadTimeoutMs
         THEN Kill({"s3get", "vision"})
    ELSE IF v.invoke # "ok"
         THEN Raise(MkErr("other", 48 + errlen), {"s3get", "vision"})
    ELSE Got(v.text, {"s3get", "vision"})

\* lines 451-457 (and extract_lambda_v2 lines 289-294): placeholder for an
\* empty extraction, truncation with a marker above the cap
BkValidate(t) ==
    IF Falsy(t) \/ StripLen(t) = 0 THEN Placeholder
    ELSE IF t.len > TextCap
         THEN [t EXCEPT !.len = TextCap + MarkerLen, !.pad = 0]
    ELSE t

\* lines 509-525: user-facing messages
BkTranslate(e) ==
    IF e.kind = "UnsupportedDocumentException" THEN MkErr("translated", 132)
    ELSE IF e.kind = "InvalidParameterException" THEN MkErr("translated", 85)
    ELSE IF e.kind = "ProvisionedThroughputExceededException"
         THEN MkErr("translated", 90)
    ELSE IF e.kind = "slow" THEN MkErr("translated", 144)
    ELSE IF e.kind = "AccessDenied" THEN MkErr("translated", 80)
    ELSE IF e.kind = "scanned" THEN MkErr("translated", 115)
    ELSE IF e.kind = "bedrock" THEN MkErr("translated", 111)
    ELSE e

\* lines 210-243: the run id is minted and the record created as EXTRACTING
extract_lambda_backup_put_item(r, d) ==
    /\ x[r].pc = "idle"
    /\ \E ext \in d.exts, av \in BOOLEAN, u \in d.users :
         /\ table' = PutItem(table, ExtractKey(r),
                [pk |-> u, sk |-> Now,
                 runId |-> r, status |-> "EXTRACTING", fileKey |-> ext])
         /\ x' = [x EXCEPT ![r] =
                [XIdle EXCEPT !.h = "extract_lambda_backup", !.ext = ext,
                     !.avail = av,
                     !.pc = IF ext = "pdf" THEN "sync"
                            ELSE IF ext \in Images THEN "img"
                            ELSE IF ext = "docx" THEN "save" ELSE "detect",
                     !.text = IF ext = "docx" THEN DocxMessage ELSE NoText]]
    /\ UNCHANGED extracted
    /\ XFrame

\* lines 256-276: synchronous text detection of a pdf; too little text
\* counts as a failure
extract_lambda_backup_sync(r, d) ==
    /\ x[r].h = "extract_lambda_backup" /\ x[r].pc = "sync"
    /\ \/ \E t \in d.ocr :
            x' = [x EXCEPT ![r].calls = @ \cup {"detect"}, ![r].text = t,
                     ![r].pc = IF StripLen(t) < BkMinText
                               THEN "start" ELSE "save"]
       \/ x' = [x EXCEPT ![r].calls = @ \cup {"detect"}, ![r].pc = "start"]
    /\ UNCHANGED <<table, extracted>>
    /\ XFrame

\* lines 279-297 with start_document_analysis (lines 38-54)
extract_lambda_backup_start_document_analysis(r, d) ==
    /\ x[r].h = "extract_lambda_backup" /\ x[r].pc = "start"
    /\ \/ x' = [x EXCEPT ![r].calls = @ \cup {"start"}, ![r].pc = "poll",
                         ![r].attempt = 0]
       \/ x' = [x EXCEPT ![r].calls = @ \cup {"start"}, ![r].pc = "analyze"]
    /\ UNCHANGED <<table, extracted>>
    /\ XFrame

\* get_document_analysis (lines 56-89): one poll of the loop, and lines
\* 285-292 on its response
extract_lambda_backup_get_document_analysis(r, d) ==
    /\ x[r].h = "extract_lambda_backup" /\ x[r].pc = "poll"
    /\ IF x[r].attempt >= BkMaxTries
       THEN x' = [x EXCEPT ![r].pc = "analyze", ![r].job = "timeout"]
       ELSE \/ \E t \in d.ocr :
                 x' = [x EXCEPT ![r].calls = @ \cup {"poll"}, ![r].text = t,
                          ![r].job = "SUCCEEDED",
                          ![r].pc = IF StripLen(t) < BkMinText
                                    THEN "analyze" ELSE "save"]
            \/ x' = [x EXCEPT ![r].calls = @ \cup {"poll"},
                              ![r].job = "FAILED", ![r].pc = "analyze"]
            \/ x' = [x EXCEPT ![r].calls = @ \cup {"poll"},
                        ![r].pc = IF x[r].attempt = BkMaxTries - 1
                                  THEN "analyze" ELSE "poll",
                        ![r].job = IF x[r].attempt = BkMaxTries - 1
                                   THEN "ClientError" ELSE @,
                        ![r].attempt = @ + 1]
            \/ x' = [x EXCEPT ![r].calls = @ \cup {"poll"},
                              ![r].attempt = @ + 1]
    /\ UNCHANGED <<table, extracted>>
    /\ XFrame

\* lines 298-319: analyze_document with TABLES and FORMS
extract_lambda_backup_analyze_document(r, d) ==
    /\ x[r].h = "extract_lambda_backup" /\ x[r].pc = "analyze"
    /\ \/ \E t \in d.ocr :
            x' = [x EXCEPT ![r].calls = @ \cup {"analyze"}, ![r].text = t,
                     ![r].pc = IF StripLen(t) < BkMinText
                               THEN "fallback" ELSE "save"]
       \/ x' = [x EXCEPT ![r].calls = @ \cup {"analyze"},
                         ![r].pc = "fallback"]
    /\ UNCHANGED <<table, extracted>>
    /\ XFrame

\* lines 321-389: the vision fallback of the pdf ladder, or the deferral
\* when less than 15 s of the invocation remain
extract_lambda_backup_fallback(r, d) ==
    /\ x[r].h = "extract_lambda_backup" /\ x[r].pc = "fallback"
    /\ \E rem \in Remaining, v \in d.vision, l \in RawErrLens :
         IF ~x[r].avail THEN
             /\ x' = [x EXCEPT ![r].pc = "fail",
                               ![r].err = MkErr("scanned", 124)]
             /\ UNCHANGED table
         ELSE IF rem < BkAsyncThresholdMs THEN
             /\ table' = UpdateItem(table, ExtractKey(r),
                    [status |-> "PROCESSING_ASYNC",
                     processingType |-> "BEDROCK_VISION"])
             /\ x' = [x EXCEPT ![r] =
                    XReturn(x[r], Resp(202, "PROCESSING_ASYNC", NoText, NoErr))]
         ELSE
             LET vis == process_with_bedrock_vision(v, TRUE, rem, l)
                 txt == IF vis.t = "raise" THEN Apology ELSE vis.text
                 p == AfterVision(x[r], v, vis)
             IN  /\ x' = [x EXCEPT ![r] =
                        IF vis.t = "killed" THEN XKilled(p)
                        ELSE IF Falsy(txt) \/ StripLen(txt) < BkMinText
                        THEN [p EXCEPT !.pc = "fail",
                                       !.err = MkErr("scanned", 112)]
                        ELSE [p EXCEPT !.pc = "save", !.text = txt]]
                 /\ UNCHANGED table
    /\ UNCHANGED extracted
    /\ XFrame

\* lines 391-410: text detection of an image, with the vision model when it
\* found too little text
extract_lambda_backup_image(r, d) ==
    /\ x[r].h = "extract_lambda_backup" /\ x[r].pc = "img"
    /\ \/ \E t \in d.ocr, rem \in Remaining, v \in d.vision,
            l \in RawErrLens :
            IF StripLen(t) < BkMinText /\ x[r].avail THEN
                LET vis == process_with_bedrock_vision(v, TRUE, rem, l)
                    p == AfterVision(
                             [x[r] EXCEPT !.calls = @ \cup {"detect"}], v, vis)
                IN  x' = [x EXCEPT ![r] =
                        IF vis.t = "killed" THEN XKilled(p)
                        ELSE IF vis.t = "raise"
                        THEN [p EXCEPT !.pc = "img_retry", !.first = vis.err,
                                       !.text = t]
                        ELSE [p EXCEPT !.pc = "save", !.text = vis.text]]
            ELSE x' = [x EXCEPT ![r].calls = @ \cup {"detect"},
                                ![r].text = t, ![r].pc = "save"]
       \/ \E e \in d.errs :
            x' = [x EXCEPT ![r].calls = @ \cup {"detect"}, ![r].first = e,
                           ![r].pc = "img_retry"]
    /\ UNCHANGED <<table, extracted>>
    /\ XFrame

\* lines 409-419: the handler of a failed image attempt
extract_lambda_backup_image_retry(r, d) ==
    /\ x[r].h = "extract_lambda_backup" /\ x[r].pc = "img_retry"
    /\ \E rem \in Remaining, v \in d.vision, l \in RawErrLens :
         LET vis == process_with_bedrock_vision(v, x[r].avail, rem, l)
             p == AfterVision(x[r], v, vis)
             wrapped == [x[r].first EXCEPT !.len = 31 + @]
         IN  /\ SameDocument(x[r], v)
             /\ x' = [x EXCEPT ![r] =
                 IF ~x[r].avail
                 THEN [x[r] EXCEPT !.pc = "fail", !.err = wrapped]
                 ELSE IF vis.t = "killed" THEN XKilled(p)
                 ELSE IF vis.t = "raise"
                 THEN [p EXCEPT !.pc = "fail", !.err = wrapped]
                 ELSE [p EXCEPT !.pc = "save", !.text = vis.text]]
    /\ UNCHANGED <<table, extracted>>
    /\ XFrame

\* lines 426-436: generic text detection
extract_lambda_backup_detect_document_text(r, d) ==
    /\ x[r].h = "extract_lambda_backup" /\ x[r].pc = "detect"
    /\ \/ \E t \in d.ocr :
            x' = [x EXCEPT ![r].pc = "save", ![r].text = t,
                           ![r].calls = @ \cup {"detect"}]
       \/ \E e \in d.errs :
            x' = [x EXCEPT ![r].pc = "fail", ![r].err = e,
                           ![r].calls = @ \cup {"detect"}]
    /\ UNCHANGED <<table, extracted>>
    /\ XFrame

\* lines 451-466: validation and s3.put_object of extracted/<runId>.txt
extract_lambda_backup_put_object(r, d) ==
    /\ x[r].h = "extract_lambda_backup" /\ x[r].pc = "save"
    /\ \/ /\ extracted' = [extracted EXCEPT ![r] = BkValidate(x[r].text)]
          /\ x' = [x EXCEPT ![r].pc = "mark",
                            ![r].text = BkValidate(x[r].text),
                            ![r].textKey = "extracted"]
       \/ /\ \E l \in RawErrLens :
               x' = [x EXCEPT ![r].pc = "fail", ![r].err = MkErr("other", l),
                              ![r].calls = @ \cup {"put_error"}]
          /\ UNCHANGED extracted
    /\ UNCHANGED table
    /\ XFrame

\* lines 468-495: the record becomes EXTRACTED
extract_lambda_backup_update_extracted(r, d) ==
    /\ x[r].h = "extract_lambda_backup" /\ x[r].pc = "mark"
    /\ table' = UpdateItem(table, ExtractKey(r),
           [status |-> "EXTRACTED", textExtracted |-> "caracteres",
            textKey |-> x[r].textKey])
    /\ x' = [x EXCEPT ![r] =
                XReturn(x[r], Resp(200, "EXTRACTED", x[r].text, NoErr))]
    /\ UNCHANGED extracted
    /\ XFrame

\* lines 497-559: the record becomes FAILED
extract_lambda_backup_update_failed(r, d) ==
    /\ x[r].h = "extract_lambda_backup" /\ x[r].pc = "fail"
    /\ table' = UpdateItem(table, ExtractKey(r),
           [status |-> "FAILED", errorMessage |-> BkTranslate(x[r].err)])
    /\ x' = [x EXCEPT ![r] =
                XReturn(x[r], Resp(500, "none", NoText, BkTranslate(x[r].err)))]
    /\ UNCHANGED extracted
    /\ XFrame

extract_lambda_backup(r, d) ==
    \/ extract_lambda_backup_sync(r, d)
    \/ extract_lambda_backup_start_document_analysis(r, d)
    \/ extract_lambda_backup_get_document_analysis(r, d)
    \/ extract_lambda_backup_analyze_document(r, d)
    \/ extract_lambda_backup_fallback(r, d)
    \/ extract_lambda_backup_image(r, d)
    \/ extract_lambda_backup_image_retry(r, d)
    \/ extract_lambda_backup_detect_document_text(r, d)
    \/ extract_lambda_backup_put_object(r, d)
    \/ extract_lambda_backup_update_extracted(r, d)
    \/ extract_lambda_backup_update_failed(r, d)

(***************************************************************************)
(* extract_lambda_v2.py                                                    *)
(***************************************************************************)
V2MinText == 50

V2QuickThresholdMs == 20000

V2ReadTimeoutMs == 15000

V2MaxMB10 == 45

\* process_document_with_bedrock_direct (lines 47-136): a document above
\* 4.5 MB is only logged and sent anyway
process_document_with_bedrock_direct(v, available, remaining, errlen) ==
    IF ~available THEN Raise(MkErr("bedrock", 26), {})
    ELSE IF v.get # "ok" THEN Raise(MkErr("other", errlen), {"s3get"})
    ELSE IF v.invoke = "timeout" /\ remaining < V2ReadTimeoutMs
         THEN Kill({"s3get", "vision"})
    ELSE IF v.invoke # "ok"
         THEN Raise(MkErr("other", errlen), {"s3get", "vision"})
    ELSE IF Falsy(v.text)
         THEN Raise(MkErr("bedrock", 43), {"s3get", "vision"})
    ELSE Got(v.text, {"s3get", "vision"})

\* quick_textract_attempt (lines 138-198): the text, or NoText for None;
\* o is the outcome of detect_document_text, slow whether it took more than
\* max_wait_seconds
quick_textract_attempt(ext, o, slow) ==
    IF ext = "pdf" THEN
        IF o.res # "ok" THEN Got(NoText, {"detect"})
        ELSE IF slow THEN Got(NoText, {"detect"})
        ELSE IF StripLen(o.text) > V2MinText THEN Got(o.text, {"detect"})
        ELSE Got(NoText, {"detect"})
    ELSE IF ext \in {"png", "jpg", "jpeg"} THEN
        IF o.res = "ok" /\ StripLen(o.text) > V2MinText
        THEN Got(o.text, {"detect"})
        ELSE Got(NoText, {"detect"})
    ELSE Got(NoText, {})

\* outcomes of one detect_document_text call
TxOutcomes(texts) == {[res |-> "ok", text |-> t] : t \in texts}
                 \cup {[res |-> "error", text |-> NoText]}

\* lines 223-261: the run id is minted, the record created as EXTRACTING,
\* the remaining time read
extract_lambda_v2_put_item(r, d) ==
    /\ x[r].pc = "idle"
    /\ \E ext \in d.exts, av \in BOOLEAN, rem \in Remaining,
          u \in d.users :
         /\ table' = PutItem(table, ExtractKey(r),
                [pk |-> u, sk |-> Now,
                 runId |-> r, status |-> "EXTRACTING", fileKey |-> ext])
         /\ x' = [x EXCEPT ![r] =
                [XIdle EXCEPT !.h = "extract_lambda_v2", !.ext = ext,
                     !.avail = av, !.remaining = rem,
                     !.pc = IF rem > V2QuickThresholdMs
                            THEN "quick" ELSE "bedrock"]]
    /\ UNCHANGED extracted
    /\ XFrame

\* lines 264-270: the quick OCR attempt, accepted above the minimum length
extract_lambda_v2_quick(r, d) ==
    /\ x[r].h = "extract_lambda_v2" /\ x[r].pc = "quick"
    /\ \E o \in TxOutcomes(d.ocr), slow \in BOOLEAN :
         LET res == quick_textract_attempt(x[r].ext, o, slow)
             p == [x[r] EXCEPT !.calls = @ \cup res.calls, !.text = res.text]
         IN  x' = [x EXCEPT ![r] =
                 IF ~Falsy(res.text) /\ StripLen(res.text) > V2MinText
                 THEN [p EXCEPT !.pc = "save", !.method = "textract"]
                 ELSE [p EXCEPT !.pc = "bedrock"]]
    /\ UNCHANGED <<table, extracted>>
    /\ XFrame

\* lines 271-287: the document goes to the vision model; a failure becomes
\* the extracted text "Error: ..."
extract_lambda_v2_bedrock(r, d) ==
    /\ x[r].h = "extract_lambda_v2" /\ x[r].pc = "bedrock"
    /\ \E v \in d.vision, l \in RawErrLens :
         LET vis == process_document_with_bedrock_direct(
                        v, x[r].avail, x[r].remaining, l)
             p == [AfterVision(x[r], v, vis) EXCEPT
                      !.method = "bedrock_direct"]
         IN  x' = [x EXCEPT ![r] =
                 IF vis.t = "killed" THEN XKilled(p)
                 ELSE IF vis.t = "raise"
                 THEN [p EXCEPT !.pc = "save", !.text = ErrorText(vis.err)]
                 ELSE [p EXCEPT !.pc = "save", !.text = vis.text]]
    /\ UNCHANGED <<table, extracted>>
    /\ XFrame

\* lines 289-312: validation and s3.put_object of extracted/<runId>.txt; a
\* failed write leaves text_key = None
extract_lambda_v2_put_object(r, d) ==
    /\ x[r].h = "extract_lambda_v2" /\ x[r].pc = "save"
    /\ \/ /\ extracted' = [extracted EXCEPT ![r] = BkValidate(x[r].text)]
          /\ x' = [x EXCEPT ![r].pc = "mark",
                            ![r].text = BkValidate(x[r].text),
                            ![r].textKey = "extracted"]
       \/ /\ x' = [x EXCEPT ![r].pc = "mark",
                            ![r].text = BkValidate(x[r].text),
                            ![r].textKey = "null",
                            ![r].calls = @ \cup {"put_error"}]
          /\ UNCHANGED extracted
    /\ UNCHANGED table
    /\ XFrame

\* lines 314-347: the record becomes EXTRACTED
extract_lambda_v2_update_extracted(r, d) ==
    /\ x[r].h = "extract_lambda_v2" /\ x[r].pc = "mark"
    /\ table' = UpdateItem(table, ExtractKey(r),
           [status |-> "EXTRACTED", textExtracted |-> "caracteres",
            textKey |-> x[r].textKey, extractionMethod |-> x[r].method])
    /\ x' = [x EXCEPT ![r] =
                [XReturn(x[r], Resp(200, "EXTRACTED", x[r].text, NoErr))
                    EXCEPT !.method = x[r].method]]
    /\ UNCHANGED extracted
    /\ XFrame

extract_lambda_v2(r, d) ==
    \/ extract_lambda_v2_quick(r, d)
    \/ extract_lambda_v2_bedrock(r, d)
    \/ extract_lambda_v2_put_object(r, d)
    \/ extract_lambda_v2_update_extracted(r, d)

(***************************************************************************)
(* analyze_lambda.py                                                       *)
(***************************************************************************)
\* lines 60-77: the request is parsed and the text blob read; a missing
\* textKey field or blob raises before the record has been looked up
analyze_lambda_get_object(q) ==
    /\ a[q].pc = "idle"
    /\ \E r \in RunIds, tk \in TextKeys :
         LET t == GetText(tk, r)
             p == [AIdle EXCEPT !.h = "analyze_lambda", !.run = r, !.tk = tk]
         IN  a' = [a EXCEPT ![q] =
                 IF tk = "none"
                 THEN [p EXCEPT !.pc = "lookup", !.err = MkErr("other", 9)]
                 ELSE IF t.kind = "absent"
                 THEN [p EXCEPT !.pc = "lookup", !.err = MkErr("other", 90)]
                 ELSE [p EXCEPT !.pc = "query", !.text = Slice(t, TextCap)]]
    /\ UNCHANGED <<table, extracted, analysis, x, w, genCalls, dispatches>>

\* lines 79-108: the record is looked up and set to ANALYZING
analyze_lambda_update_analyzing(q) ==
    /\ a[q].h = "analyze_lambda" /\ a[q].pc = "query"
    /\ IF Query(table, a[q].run) = {}
       THEN /\ a' = [a EXCEPT ![q].pc = "lookup",
                              ![q].err = MkErr("other", 30)]
            /\ UNCHANGED table
       ELSE LET k == FirstItem(table, a[q].run) IN
            /\ table' = UpdateItem(table, k, [status |-> "ANALYZING"])
            /\ a' = [a EXCEPT ![q].pc = "invoke", ![q].key = k,
                              ![q].found = TRUE]
    /\ UNCHANGED <<extracted, analysis, x, w, genCalls, dispatches>>

\* lines 110-141: the generation service is called and the result written
\* to analysis/<runId>.txt
analyze_lambda_invoke_model(q) ==
    /\ a[q].h = "analyze_lambda" /\ a[q].pc = "invoke"
    /\ genCalls' = [genCalls EXCEPT ![a[q].run] = @ + 1]
    /\ \/ \E t \in AnalysisTexts :
            \/ /\ analysis' = [analysis EXCEPT ![a[q].run] = t]
               /\ a' = [a EXCEPT ![q].pc = "complete", ![q].result = t]
            \/ /\ \E l \in RawErrLens :
                    a' = [a EXCEPT ![q].pc = "fail",
                                   ![q].err = MkErr("other", l)]
               /\ UNCHANGED analysis
       \/ /\ \E l \in RawErrLens :
               a' = [a EXCEPT ![q].pc = "fail", ![q].err = MkErr("other", l)]
          /\ UNCHANGED analysis
       \/ /\ a' = [a EXCEPT ![q] = AKilled(a[q])]
          /\ UNCHANGED analysis
    /\ UNCHANGED <<table, extracted, x, w, dispatches>>

\* lines 143-173: the record becomes COMPLETED
analyze_lambda_update_completed(q) ==
    /\ a[q].h = "analyze_lambda" /\ a[q].pc = "complete"
    /\ table' = UpdateItem(table, a[q].key,
           [status |-> "COMPLETED", bedrockResult |-> a[q].result,
            analysisKey |-> "analysis"])
    /\ a' = [a EXCEPT ![q] =
                AReturn(a[q], Resp(200, "COMPLETED", a[q].result, NoErr))]
    /\ UNCHANGED <<extracted, analysis, x, w, genCalls, dispatches>>

\* lines 175-193 and 217-226: the record becomes FAILED
analyze_lambda_update_failed(q) ==
    /\ a[q].h = "analyze_lambda" /\ a[q].pc = "fail"
    /\ table' = UpdateItem(table, a[q].key,
           [status |-> "FAILED", errorMessage |-> a[q].err])
    /\ a' = [a EXCEPT ![q] = AReturn(a[q], Resp(500, "none", NoText, a[q].err))]
    /\ UNCHANGED <<extracted, analysis, x, w, genCalls, dispatches>>

\* lines 194-226: an error before the record was located; the handler looks
\* the record up and sets it to FAILED when there is one
analyze_lambda_lookup_failed(q) ==
    /\ a[q].h = "analyze_lambda" /\ a[q].pc = "lookup"
    /\ IF Query(table, a[q].run) = {}
       THEN UNCHANGED table
       ELSE table' = UpdateItem(table, FirstItem(table, a[q].run),
                [status |-> "FAILED", errorMessage |-> a[q].err])
    /\ a' = [a EXCEPT ![q] =
                [AReturn(a[q], Resp(500, "none", NoText, a[q].err))
                    EXCEPT !.found = Query(table, a[q].run) # {}]]
    /\ UNCHANGED <<extracted, analysis, x, w, genCalls, dispatches>>

analyze_lambda(q) ==
    \/ analyze_lambda_update_analyzing(q)
    \/ analyze_lambda_invoke_model(q)
    \/ analyze_lambda_update_completed(q)
    \/ analyze_lambda_update_failed(q)
    \/ analyze_lambda_lookup_failed(q)

(***************************************************************************)
(* analyze_lambda_improved.py                                              *)
(***************************************************************************)
ImpMinText == 10

ImpPreview == 1000

\* lines 90-118: the record is looked up, or a new key made when there is
\* none; update_process_tracking then writes to that key
analyze_lambda_improved_query(q, us) ==
    /\ a[q].pc = "idle"
    /\ \E r \in RunIds, tk \in TextKeys, u \in us :
         LET found == Query(table, r) # {}
             k == IF found THEN FirstItem(table, r) ELSE [run |-> r, by |-> q]
         IN  /\ found => u = DefaultUser
             /\ table' = UpdateItem(table, k,
                    [pk |-> IF found THEN table[k].pk ELSE u,
                     sk |-> IF found THEN table[k].sk ELSE Now,
                     steps |-> Steps(k, {"analysis_started"})])
             /\ a' = [a EXCEPT ![q] =
                    [AIdle EXCEPT !.h = "analyze_lambda_improved", !.run = r,
                        !.tk = tk, !.key = k, !.found = found, !.pc = "load",
                        !.stored = table[k].textExtracted]]
    /\ UNCHANGED <<extracted, analysis, x, w, genCalls, dispatches>>

\* lines 120-162: the three text sources in order; `stored` is the record's
\* textExtracted field as read by the query
ImpResolve(tk, r, stored) ==
    LET first == IF tk # "none" THEN GetText(tk, r) ELSE NoText
        second == stored \notin {"none", "caracteres"}
        third == IF Falsy(first) /\ ~second /\ tk = "none"
                 THEN extracted[r] ELSE NoText
    IN  IF ~Falsy(first) THEN [text |-> first, src |-> "s3"]
        ELSE IF second
             THEN [text |-> MkText(stored, 1, 0), src |-> "dynamodb"]
        ELSE IF third.kind # "absent"
             THEN [text |-> third, src |-> "s3_reconstructed"]
        ELSE [text |-> first,
              src |-> IF first.kind # "absent" THEN "s3" ELSE "unknown"]

\* lines 120-199: the text is resolved and validated, the record set to
\* ANALYZING
analyze_lambda_improved_load(q) ==
    /\ a[q].h = "analyze_lambda_improved" /\ a[q].pc = "load"
    /\ LET res == ImpResolve(a[q].tk, a[q].run, a[q].stored)
           k == a[q].key
           tracked == (IF a[q].tk # "none" THEN {"text_loaded_from_s3"} ELSE {})
                      \cup (IF res.src = "s3_reconstructed"
                               \/ (Falsy(res.text) /\ a[q].tk = "none")
                            THEN {"text_loaded_reconstructed"} ELSE {})
                      \cup {"text_validation"}
       IN  IF Falsy(res.text) \/ StripLen(res.text) < ImpMinText
           THEN /\ table' = UpdateItem(table, k, [steps |-> Steps(k, tracked)])
                /\ a' = [a EXCEPT ![q].pc = "fail", ![q].src = res.src,
                            ![q].err = MkErr("other", 80)]
           ELSE /\ table' = UpdateItem(table, k,
                       [steps |-> Steps(k, tracked), status |-> "ANALYZING"])
                /\ a' = [a EXCEPT ![q].pc = "invoke", ![q].src = res.src,
                            ![q].text = Slice(res.text, TextCap)]
    /\ UNCHANGED <<extracted, analysis, x, w, genCalls, dispatches>>

\* lines 201-250: the generation service is called; a failed write of
\* analysis/<runId>.txt is only tracked
analyze_lambda_improved_invoke_model(q) ==
    /\ a[q].h = "analyze_lambda_improved" /\ a[q].pc = "invoke"
    /\ genCalls' = [genCalls EXCEPT ![a[q].run] = @ + 1]
    /\ LET k == a[q].key IN
       \/ \E t \in AnalysisTexts :
            /\ \/ analysis' = [analysis EXCEPT ![a[q].run] = t]
               \/ UNCHANGED analysis
            /\ table' = UpdateItem(table, k, [steps |->
                   Steps(k, {"bedrock_called", "bedrock_response",
                             "analysis_saved"})])
            /\ a' = [a EXCEPT ![q].pc = "complete", ![q].result = t]
       \/ /\ \E l \in RawErrLens :
               a' = [a EXCEPT ![q].pc = "fail",
                              ![q].err = MkErr("other", 23 + l)]
          /\ table' = UpdateItem(table, k, [steps |->
                 Steps(k, {"bedrock_called", "bedrock_response"})])
          /\ UNCHANGED analysis
       \/ /\ a' = [a EXCEPT ![q] = AKilled(a[q])]
          /\ table' = UpdateItem(table, k,
                 [steps |-> Steps(k, {"bedrock_called"})])
          /\ UNCHANGED analysis
    /\ UNCHANGED <<extracted, x, w, dispatches>>

\* lines 252-278: the record becomes COMPLETED, with a preview of the result
analyze_lambda_improved_update_completed(q) ==
    /\ a[q].h = "analyze_lambda_improved" /\ a[q].pc = "complete"
    /\ table' = UpdateItem(table, a[q].key,
           [status |-> "COMPLETED",
            bedrockResult |-> Slice(a[q].result, ImpPreview),
            analysisKey |-> "analysis",
            steps |-> Steps(a[q].key, {"result_delivered"})])
    /\ a' = [a EXCEPT ![q] =
                AReturn(a[q], Resp(200, "COMPLETED", a[q].result, NoErr))]
    /\ UNCHANGED <<extracted, analysis, x, w, genCalls, dispatches>>

\* lines 280-310: the record becomes FAILED
analyze_lambda_improved_update_failed(q) ==
    /\ a[q].h = "analyze_lambda_improved" /\ a[q].pc = "fail"
    /\ table' = UpdateItem(table, a[q].key,
           [status |-> "FAILED", errorMessage |-> SliceErr(a[q].err, ErrorCap),
            steps |-> Steps(a[q].key, {"analysis_failed"})])
    /\ a' = [a EXCEPT ![q] = AReturn(a[q], Resp(500, "none", NoText, a[q].err))]
    /\ UNCHANGED <<extracted, analysis, x, w, genCalls, dispatches>>

analyze_lambda_improved(q) ==
    \/ analyze_lambda_improved_load(q)
    \/ analyze_lambda_improved_invoke_model(q)
    \/ analyze_lambda_improved_update_completed(q)
    \/ analyze_lambda_improved_update_failed(q)

(***************************************************************************)
(* analyze_lambda_final.py                                                 *)
(***************************************************************************)
FinMinValid == 100

FinMinText == 50

\* lines 196-199: the loaded text is rejected
FinInvalid(t) == StartsWithError(t) \/ StripLen(t) < FinMinValid

\* lines 157-207: the record is looked up, or a new key made when there is
\* none, and the text blob read
analyze_lambda_final_query(q, us) ==
    /\ a[q].pc = "idle"
    /\ \E r \in RunIds, tk \in TextKeys, u \in us :
         LET found == Query(table, r) # {}
             k == IF found THEN FirstItem(table, r) ELSE [run |-> r, by |-> q]
             fk == IF found THEN table[k].fileKey ELSE "none"
             t == IF tk = "none" THEN NoText ELSE GetText(tk, r)
             vision == t.kind = "absent" \/ FinInvalid(t)
             p == [AIdle EXCEPT !.h = "analyze_lambda_final", !.run = r,
                      !.tk = tk, !.key = k, !.found = found, !.fileKey = fk,
                      !.pk = IF found THEN table[k].pk ELSE u,
                      !.sk = IF found THEN table[k].sk ELSE Now,
                      !.text = t]
         IN  /\ found => u = DefaultUser
             /\ a' = [a EXCEPT ![q] =
                 IF vision /\ fk \notin {"none", ""}
                 THEN [p EXCEPT !.pc = "vision"] ELSE [p EXCEPT !.pc = "text"]]
    /\ UNCHANGED <<table, extracted, analysis, x, w, genCalls, dispatches>>

\* lines 208-246 with analyze_with_document_vision (lines 57-136): the
\* original document goes to the generation service
analyze_lambda_final_vision(q) ==
    /\ a[q].h = "analyze_lambda_final" /\ a[q].pc = "vision"
    /\ \/ \E t \in AnalysisTexts :
            /\ genCalls' = [genCalls EXCEPT ![a[q].run] = @ + 1]
            /\ table' = UpdateItem(table, a[q].key,
                   [pk |-> a[q].pk, sk |-> a[q].sk, status |-> "COMPLETED",
                    analysisMethod |-> "bedrock_vision_direct"])
            /\ a' = [a EXCEPT ![q] =
                        AReturn(a[q], Resp(200, "COMPLETED", t, NoErr))]
       \/ \E l \in RawErrLens, called \in BOOLEAN, timedOut \in BOOLEAN :
            /\ called \/ ~timedOut
            /\ genCalls' = [genCalls EXCEPT ![a[q].run] =
                               IF called THEN @ + 1 ELSE @]
            /\ a' = [a EXCEPT ![q] =
                        IF Falsy(a[q].text)
                        THEN AReturn(a[q],
                                 Resp(500, "none", NoText, MkErr("other", l)))
                        ELSE [a[q] EXCEPT !.pc = "text", !.slow = timedOut]]
            /\ UNCHANGED table
    /\ UNCHANGED <<extracted, analysis, x, w, dispatches>>

\* lines 247-316: the extracted text goes to the generation service; an
\* error is answered with a 500 response
analyze_lambda_final_text(q) ==
    /\ a[q].h = "analyze_lambda_final" /\ a[q].pc = "text"
    /\ IF ~Falsy(a[q].text) /\ StripLen(a[q].text) > FinMinText
       THEN /\ genCalls' = [genCalls EXCEPT ![a[q].run] = @ + 1]
            /\ \/ \E t \in AnalysisTexts :
                    /\ table' = UpdateItem(table, a[q].key,
                           [pk |-> a[q].pk, sk |-> a[q].sk,
                            status |-> "COMPLETED",
                            analysisMethod |-> "text_analysis"])
                    /\ a' = [a EXCEPT ![q] =
                            AReturn(a[q], Resp(200, "COMPLETED", t, NoErr))]
               \/ /\ \E l \in RawErrLens :
                       a' = [a EXCEPT ![q] = AReturn(a[q],
                                Resp(500, "none", NoText, MkErr("other", l)))]
                  /\ UNCHANGED table
               \/ /\ a[q].slow
                  /\ a' = [a EXCEPT ![q] = AKilled(a[q])]
                  /\ UNCHANGED table
       ELSE /\ a' = [a EXCEPT ![q] = AReturn(a[q],
                        Resp(500, "none", NoText, MkErr("novalid", 48)))]
            /\ UNCHANGED <<table, genCalls>>
    /\ UNCHANGED <<extracted, analysis, x, w, dispatches>>

analyze_lambda_final(q) ==
    \/ analyze_lambda_final_vision(q)
    \/ analyze_lambda_final_text(q)

(***************************************************************************)
(* analyze_lambda_async.py                                                 *)
(***************************************************************************)
WIdle == [pc |-> "idle", run |-> "none", key |-> NoKey, err |-> NoErr,
          result |-> NoText, resp |-> NoResp]

\* variant of analyze_lambda_async_check without the cached answer (lines
\* 61-76 removed)
async_check_without_cache(found, item) ==
    IF ~found THEN "not_found"
    ELSE IF item.status \in {"PROCESSING_ASYNC", "ANALYZING"}
         THEN "processing"
    ELSE IF item.fileKey \in {"none", ""} THEN "no_file"
    ELSE "dispatch"

\* variant of analyze_lambda_async_check without the in-progress answer
\* (lines 78-89 removed)
async_check_without_in_progress(found, item) ==
    IF ~found THEN "not_found"
    ELSE IF item.status = "COMPLETED" /\ ~Falsy(item.analysisResult)
         THEN "cached"
    ELSE IF item.fileKey \in {"none", ""} THEN "no_file"
    ELSE "dispatch"

\* lines 54-109: what the handler answers to the record it read
analyze_lambda_async_check(found, item) ==
    IF ~found THEN "not_found"
    ELSE IF item.status = "COMPLETED" /\ ~Falsy(item.analysisResult)
         THEN "cached"
    ELSE IF item.status \in {"PROCESSING_ASYNC", "ANALYZING"}
         THEN "processing"
    ELSE IF item.fileKey \in {"none", ""} THEN "no_file"
    ELSE "dispatch"

\* lines 40-109: the record is read; a completed run with a cached result
\* and a run in progress are answered at once.  The status read is not
\* looked at again after these checks
analyze_lambda_async_query(q) ==
    /\ a[q].pc = "idle"
    /\ \E r \in RunIds :
         LET found == Query(table, r) # {}
             k == IF found THEN FirstItem(table, r) ELSE NoKey
             item == IF found THEN table[k] ELSE NoItem
             answer == analyze_lambda_async_check(found, item)
             p == [AIdle EXCEPT !.h = "analyze_lambda_async", !.run = r,
                      !.key = k, !.found = found, !.status = item.status,
                      !.fileKey = item.fileKey]
         IN  a' = [a EXCEPT ![q] =
                 IF answer = "not_found"
                 THEN AReturn(p, Resp(404, "none", NoText, MkErr("other", 40)))
                 ELSE IF answer = "cached"
                 THEN AReturn(p,
                        Resp(200, "COMPLETED", item.analysisResult, NoErr))
                 ELSE IF answer = "processing"
                 THEN AReturn(p, Resp(202, "PROCESSING", NoText, NoErr))
                 ELSE IF answer = "no_file"
                 THEN AReturn(p, Resp(400, "none", NoText, MkErr("other", 36)))
                 ELSE [p EXCEPT !.pc = "mark", !.status = "none"]]
    /\ UNCHANGED <<table, extracted, analysis, x, w, genCalls, dispatches>>

\* variant of analyze_lambda_async_update_item that writes only when the run
\* is not in progress (a conditional write), and answers 202 otherwise
update_item_unless_in_progress(q) ==
    /\ a[q].h = "analyze_lambda_async" /\ a[q].pc = "mark"
    /\ IF table[a[q].key].status \in {"PROCESSING_ASYNC", "ANALYZING"}
       THEN /\ a' = [a EXCEPT ![q] =
                      AReturn(a[q], Resp(202, "PROCESSING", NoText, NoErr))]
            /\ UNCHANGED table
       ELSE /\ table' = UpdateItem(table, a[q].key,
                            [status |-> "PROCESSING_ASYNC"])
            /\ a' = [a EXCEPT ![q].pc = "invoke"]
    /\ UNCHANGED <<extracted, analysis, x, w, genCalls, dispatches>>

\* lines 111-120: the record is set to PROCESSING_ASYNC
analyze_lambda_async_update_item(q) ==
    /\ a[q].h = "analyze_lambda_async" /\ a[q].pc = "mark"
    /\ table' = UpdateItem(table, a[q].key, [status |-> "PROCESSING_ASYNC"])
    /\ a' = [a EXCEPT ![q].pc = "invoke"]
    /\ UNCHANGED <<extracted, analysis, x, w, genCalls, dispatches>>

\* lines 122-151: the background worker is invoked as an event
analyze_lambda_async_invoke(q) ==
    /\ a[q].h = "analyze_lambda_async" /\ a[q].pc = "invoke"
    /\ \/ /\ dispatches' = [dispatches EXCEPT ![a[q].run] = @ + 1]
          /\ w' = [w EXCEPT ![q] = [WIdle EXCEPT !.pc = "start",
                                                 !.run = a[q].run]]
          /\ a' = [a EXCEPT ![q] =
                      AReturn(a[q], Resp(202, "PROCESSING", NoText, NoErr))]
       \/ /\ \E l \in RawErrLens :
               a' = [a EXCEPT ![q].pc = "fail",
                              ![q].err = MkErr("other", 34 + l)]
          /\ UNCHANGED <<w, dispatches>>
    /\ UNCHANGED <<table, extracted, analysis, x, genCalls>>

\* variant of analyze_lambda_async_update_failed that answers 500 without
\* writing to the record (lines 154-163 removed)
answer_500_without_update(q) ==
    /\ a[q].h = "analyze_lambda_async" /\ a[q].pc = "fail"
    /\ a' = [a EXCEPT ![q] = AReturn(a[q], Resp(500, "none", NoText, a[q].err))]
    /\ UNCHANGED <<table, extracted, analysis, x, w, genCalls, dispatches>>

\* lines 151-177: a failed invocation sets the record to FAILED
analyze_lambda_async_update_failed(q) ==
    /\ a[q].h = "analyze_lambda_async" /\ a[q].pc = "fail"
    /\ table' = UpdateItem(table, a[q].key,
           [status |-> "FAILED", errorMessage |-> a[q].err])
    /\ a' = [a EXCEPT ![q] = AReturn(a[q], Resp(500, "none", NoText, a[q].err))]
    /\ UNCHANGED <<extracted, analysis, x, w, genCalls, dispatches>>

analyze_lambda_async(q) ==
    \/ analyze_lambda_async_update_item(q)
    \/ analyze_lambda_async_invoke(q)
    \/ analyze_lambda_async_update_failed(q)

(***************************************************************************)
(* process_async_lambda.py                                                 *)
(***************************************************************************)
WorkerPreview == 5000

WReturn(p, resp) == [WIdle EXCEPT !.pc = "done", !.run = p.run, !.resp = resp]

\* variant of process_async_lambda_update_processing that takes the first
\* item of the table instead of the item the index gives for the run id
update_processing_of_any_run(q) ==
    /\ w[q].pc = "start"
    /\ IF \A k \in Keys : ~table[k].exists
       THEN /\ w' = [w EXCEPT ![q] = WReturn(w[q],
                        Resp(500, "none", NoText, MkErr("other", 30)))]
            /\ UNCHANGED table
       ELSE LET k == CHOOSE k \in Keys : table[k].exists IN
            /\ table' = UpdateItem(table, k, [status |-> "PROCESSING_ASYNC"])
            /\ w' = [w EXCEPT ![q].pc = "invoke", ![q].key = k]
    /\ UNCHANGED <<extracted, analysis, x, a, genCalls, dispatches>>

\* lines 62-95: the record is looked up and set to PROCESSING_ASYNC
process_async_lambda_update_processing(q) ==
    /\ w[q].pc = "start"
    /\ IF Query(table, w[q].run) = {}
       THEN /\ w' = [w EXCEPT ![q] = WReturn(w[q],
                        Resp(500, "none", NoText, MkErr("other", 30)))]
            /\ UNCHANGED table
       ELSE LET k == FirstItem(table, w[q].run) IN
            IF table[k].fileKey \in {"none", ""}
            THEN /\ w' = [w EXCEPT ![q].pc = "fail", ![q].key = k,
                                   ![q].err = MkErr("other", 26)]
                 /\ UNCHANGED table
            ELSE /\ table' = UpdateItem(table, k,
                        [status |-> "PROCESSING_ASYNC"])
                 /\ w' = [w EXCEPT ![q].pc = "invoke", ![q].key = k]
    /\ UNCHANGED <<extracted, analysis, x, a, genCalls, dispatches>>

\* lines 97-167: the document is read and sent to the generation service,
\* the result written to analysis/<runId>.txt
process_async_lambda_invoke_model(q) ==
    /\ w[q].pc = "invoke"
    /\ \/ /\ genCalls' = [genCalls EXCEPT ![w[q].run] = @ + 1]
          /\ \E t \in AnalysisTexts :
               \/ /\ analysis' = [analysis EXCEPT ![w[q].run] = t]
                  /\ w' = [w EXCEPT ![q].pc = "complete", ![q].result = t]
               \/ /\ \E l \in RawErrLens :
                       w' = [w EXCEPT ![q].pc = "fail",
                                      ![q].err = MkErr("other", l)]
                  /\ UNCHANGED analysis
       \/ /\ \E l \in RawErrLens, called \in BOOLEAN :
               /\ genCalls' = [genCalls EXCEPT ![w[q].run] =
                                  IF called THEN @ + 1 ELSE @]
               /\ w' = [w EXCEPT ![q].pc = "fail",
                                 ![q].err = MkErr("other", l)]
          /\ UNCHANGED analysis
    /\ UNCHANGED <<table, extracted, x, a, dispatches>>

\* lines 169-191: the record becomes COMPLETED, with a preview of the result
process_async_lambda_update_completed(q) ==
    /\ w[q].pc = "complete"
    /\ table' = UpdateItem(table, w[q].key,
           [status |-> "COMPLETED", analysisMethod |-> "async_bedrock_vision",
            analysisResult |-> Slice(w[q].result, WorkerPreview)])
    /\ w' = [w EXCEPT ![q] =
                WReturn(w[q], Resp(200, "COMPLETED", NoText, NoErr))]
    /\ UNCHANGED <<extracted, analysis, x, a, genCalls, dispatches>>

\* lines 193-209: the record becomes FAILED
process_async_lambda_update_failed(q) ==
    /\ w[q].pc = "fail"
    /\ table' = UpdateItem(table, w[q].key,
           [status |-> "FAILED", errorMessage |-> SliceErr(w[q].err, ErrorCap)])
    /\ w' = [w EXCEPT ![q] = WReturn(w[q], Resp(500, "none", NoText, w[q].err))]
    /\ UNCHANGED <<extracted, analysis, x, a, genCalls, dispatches>>

process_async_lambda(q) ==
    \/ process_async_lambda_update_processing(q)
    \/ process_async_lambda_invoke_model(q)
    \/ process_async_lambda_update_completed(q)
    \/ process_async_lambda_update_failed(q)

(***************************************************************************)
(* check_status_lambda.py and status_lambda.py                             *)
(***************************************************************************)
\* check_status_lambda lines 70-123: the answer built from the record; blob
\* is what get_object of analysis/<runId>.txt gave (NoText when it raised)
check_status_lambda_response(item, blob) ==
    IF item.status = "COMPLETED" THEN
        LET result == IF Falsy(item.analysisResult) THEN blob
                      ELSE item.analysisResult
        IN  IF ~Falsy(result) THEN Resp(200, "COMPLETED", result, NoErr)
            ELSE Resp(200, "COMPLETED_NO_RESULT", NoText, NoErr)
    ELSE IF item.status = "FAILED" THEN
        Resp(200, "FAILED", NoText,
             IF item.errorMessage = NoErr THEN MkErr("unknown", 13)
             ELSE item.errorMessage)
    ELSE Resp(200, item.status, NoText, NoErr)

\* variant of check_status_lambda that stores the result it read from the
\* blob in the record
check_status_lambda_caching(q) ==
    /\ a[q].pc = "idle"
    /\ \E r \in RunIds, readable \in BOOLEAN :
         LET found == Query(table, r) # {}
             item == IF found THEN table[FirstItem(table, r)] ELSE NoItem
             blob == IF readable THEN analysis[r] ELSE NoText
             p == [AIdle EXCEPT !.h = "check_status_lambda", !.run = r,
                      !.found = found, !.status = item.status]
         IN  /\ a' = [a EXCEPT ![q] =
                 IF ~found
                 THEN AReturn(p, Resp(404, "none", NoText, MkErr("other", 40)))
                 ELSE AReturn(p, check_status_lambda_response(item, blob))]
             /\ table' =
                 IF found /\ item.status = "COMPLETED"
                    /\ Falsy(item.analysisResult) /\ ~Falsy(blob)
                 THEN UpdateItem(table, FirstItem(table, r),
                          [analysisResult |-> blob])
                 ELSE table
    /\ UNCHANGED <<extracted, analysis, x, w, genCalls, dispatches>>

\* check_status_lambda lines 36-134: the record is read through the index
\* and, for a completed run without cached result, the result blob
check_status_lambda(q) ==
    /\ a[q].pc = "idle"
    /\ \E r \in RunIds, readable \in BOOLEAN :
         LET found == Query(table, r) # {}
             item == IF found THEN table[FirstItem(table, r)] ELSE NoItem
             blob == IF readable THEN analysis[r] ELSE NoText
             p == [AIdle EXCEPT !.h = "check_status_lambda", !.run = r,
                      !.found = found, !.status = item.status]
         IN  a' = [a EXCEPT ![q] =
                 IF ~found
                 THEN AReturn(p, Resp(404, "none", NoText, MkErr("other", 40)))
                 ELSE AReturn(p, check_status_lambda_response(item, blob))]
    /\ UNCHANGED <<table, extracted, analysis, x, w, genCalls, dispatches>>

\* status_lambda lines 26-41: status and errorMessage of the record, and its
\* bedrockResult when the run is completed
status_lambda_response(item) ==
    Resp(200, item.status,
         IF item.status = "COMPLETED" THEN item.bedrockResult ELSE NoText,
         item.errorMessage)

\* status_lambda lines 10-74
status_lambda(q) ==
    /\ a[q].pc = "idle"
    /\ \E r \in RunIds :
         LET found == Query(table, r) # {}
             item == IF found THEN table[FirstItem(table, r)] ELSE NoItem
             p == [AIdle EXCEPT !.h = "status_lambda", !.run = r,
                      !.found = found, !.status = item.status]
         IN  a' = [a EXCEPT ![q] =
                 IF ~found
                 THEN AReturn(p, Resp(404, "none", NoText, MkErr("other", 13)))
                 ELSE AReturn(p, status_lambda_response(item))]
    /\ UNCHANGED <<table, extracted, analysis, x, w, genCalls, dispatches>>

(***************************************************************************)
(* history_lambda.py                                                       *)
(***************************************************************************)
HistoryLimit == 50

TicksPerSecond == 2

\* datetime.isoformat() of time t: the seconds, and the fraction of a second
\* that is printed only when it is not zero
IsoFormat(t) == [sec |-> t \div TicksPerSecond, frac |-> t % TicksPerSecond]

\* the sort key 'RUN#<timestamp>#<runId>' of the item at key k
SortKey(k) == [iso |-> IsoFormat(table[k].sk), run |-> k.run, by |-> k.by]

\* comparison of two sort keys as strings: the seconds have a fixed width;
\* after them '#' (no fraction) sorts before '.' (a fraction); then the
\* digits of the fraction, then the run id
SkBefore(s, t) ==
    LET runBefore == \/ (s.run = UnknownRun /\ t.run # UnknownRun)
                     \/ (s.run = t.run /\ s.by < t.by)
    IN  IF s.iso.sec # t.iso.sec THEN s.iso.sec < t.iso.sec
        ELSE IF s.iso.frac = 0 /\ t.iso.frac = 0 THEN runBefore
        ELSE IF s.iso.frac = 0 THEN TRUE
        ELSE IF t.iso.frac = 0 THEN FALSE
        ELSE IF s.iso.frac # t.iso.frac THEN s.iso.frac < t.iso.frac
        ELSE runBefore

\* table.query(pk = 'USER#<u>', ScanIndexForward=False, Limit=n) (lines
\* 15-19): the items of the partition by descending sort key, the first n
QueryPartition(u, n) ==
    LET part == {k \in Keys : table[k].exists /\ table[k].pk = u}
        sorted == CHOOSE f \in [1..Cardinality(part) -> part] :
                     \A i, j \in 1..Cardinality(part) :
                         i < j => SkBefore(SortKey(f[j]), SortKey(f[i]))
    IN  SubSeq(sorted, 1, Min(n, Cardinality(part)))

\* lines 10-95: the items of the user's partition are read and projected;
\* a request without userId path parameter is answered 500
history_lambda(q) ==
    /\ a[q].pc = "idle"
    /\ \E u \in Users \cup {"none"} :
         LET p == [AIdle EXCEPT !.h = "history_lambda", !.pk = u] IN
         a' = [a EXCEPT ![q] =
             IF u = "none"
             THEN [AReturn(p, Resp(500, "none", NoText, MkErr("other", 16)))
                      EXCEPT !.pk = u]
             ELSE [AReturn(p, Resp(200, "none", NoText, NoErr))
                      EXCEPT !.pk = u,
                             !.history = QueryPartition(u, HistoryLimit)]]
    /\ UNCHANGED <<table, extracted, analysis, x, w, genCalls, dispatches>>

(***************************************************************************)
(* OPTIONS requests: event.get('httpMethod') == 'OPTIONS', no body.        *)
(***************************************************************************)
\* str() of the TypeError json.loads raises for a body of None
NoBodyLen == 61

\* the invocation q of handler h has answered the OPTIONS request with resp
AOptions(h, resp) ==
    [AReturn([AIdle EXCEPT !.h = h], resp) EXCEPT !.preflight = TRUE]

XOptions(h, resp) ==
    [XReturn([XIdle EXCEPT !.h = h], resp) EXCEPT !.preflight = TRUE]

AFrame == UNCHANGED <<table, extracted, analysis, x, w, genCalls, dispatches>>

\* extract_lambda lines 73-75 and 211-249: the method is not examined;
\* json.loads(None) raises before run_id is bound, so no record is touched
extract_lambda_options(r) ==
    /\ x[r].pc = "idle"
    /\ x' = [x EXCEPT ![r] = XOptions("extract_lambda",
                 Resp(500, "none", NoText, MkErr("other", NoBodyLen)))]
    /\ UNCHANGED <<table, extracted>>
    /\ XFrame

\* extract_lambda_backup lines 202-208
extract_lambda_backup_options(r) ==
    /\ x[r].pc = "idle"
    /\ x' = [x EXCEPT ![r] = XOptions("extract_lambda_backup",
                 Resp(200, "none", NoText, NoErr))]
    /\ UNCHANGED <<table, extracted>>
    /\ XFrame

\* extract_lambda_v2 lines 211-217
extract_lambda_v2_options(r) ==
    /\ x[r].pc = "idle"
    /\ x' = [x EXCEPT ![r] = XOptions("extract_lambda_v2",
                 Resp(200, "none", NoText, NoErr))]
    /\ UNCHANGED <<table, extracted>>
    /\ XFrame

\* analyze_lambda lines 47-58
analyze_lambda_options(q) ==
    /\ a[q].pc = "idle"
    /\ a' = [a EXCEPT ![q] = AOptions("analyze_lambda",
                 Resp(200, "none", NoText, NoErr))]
    /\ AFrame

\* analyze_lambda_improved lines 79-85
analyze_lambda_improved_options(q) ==
    /\ a[q].pc = "idle"
    /\ a' = [a EXCEPT ![q] = AOptions("analyze_lambda_improved",
                 Resp(200, "none", NoText, NoErr))]
    /\ AFrame

\* analyze_lambda_final lines 149-155
analyze_lambda_final_options(q) ==
    /\ a[q].pc = "idle"
    /\ a' = [a EXCEPT ![q] = AOptions("analyze_lambda_final",
                 Resp(200, "none", NoText, NoErr))]
    /\ AFrame

\* analyze_lambda_async lines 32-38
analyze_lambda_async_options(q) ==
    /\ a[q].pc = "idle"
    /\ a' = [a EXCEPT ![q] = AOptions("analyze_lambda_async",
                 Resp(200, "none", NoText, NoErr))]
    /\ AFrame

\* check_status_lambda lines 28-34
check_status_lambda_options(q) ==
    /\ a[q].pc = "idle"
    /\ a' = [a EXCEPT ![q] = AOptions("check_status_lambda",
                 Resp(200, "none", NoText, NoErr))]
    /\ AFrame

\* status_lambda lines 10-74: the method is not examined; the request for
\* /runs/{id} is answered as a GET is
status_lambda_options(q) ==
    /\ a[q].pc = "idle"
    /\ \E r \in RunIds :
         LET found == Query(table, r) # {}
             item == IF found THEN table[FirstItem(table, r)] ELSE NoItem
             p == [AIdle EXCEPT !.h = "status_lambda", !.run = r,
                      !.found = found, !.status = item.status]
         IN  a' = [a EXCEPT ![q] =
                 [(IF ~found
                   THEN AReturn(p, Resp(404, "none", NoText,
                                        MkErr("other", 13)))
                   ELSE AReturn(p, status_lambda_response(item)))
                  EXCEPT !.preflight = TRUE]]
    /\ AFrame

\* history_lambda lines 10-44: the method is not examined; the request for
\* /history/{userId} is answered as a GET is
history_lambda_options(q) ==
    /\ a[q].pc = "idle"
    /\ \E u \in Users :
         a' = [a EXCEPT ![q] =
             [AOptions("history_lambda", Resp(200, "none", NoText, NoErr))
                 EXCEPT !.pk = u,
                        !.history = QueryPartition(u, HistoryLimit)]]
    /\ AFrame

\* presigned_lambda lines 9-11 and 41-52: the method is not examined;
\* json.loads(None) raises and the request is answered with 500
presigned_lambda_options(q) ==
    /\ a[q].pc = "idle"
    /\ a' = [a EXCEPT ![q] = AOptions("presigned_lambda",
                 Resp(500, "none", NoText, MkErr("other", NoBodyLen)))]
    /\ AFrame

(***************************************************************************)
(* Specification.                                                          *)
(***************************************************************************)
Init ==
    /\ table = [k \in Keys |-> NoItem]
    /\ extracted = [r \in RunIds |-> NoText]
    /\ analysis = [r \in RunIds |-> NoText]
    /\ x = [r \in RunIds |-> XIdle]
    /\ a = [q \in Requests |-> AIdle]
    /\ w = [q \in Requests |-> WIdle]
    /\ genCalls = [r \in RunIds |-> 0]
    /\ dispatches = [r \in RunIds |-> 0]

NextExtract ==
    \E r \in Runs :
        \/ extract_lambda_put_item(r, AllDocuments)
        \/ extract_lambda(r, AllDocuments)
        \/ extract_lambda_backup_put_item(r, AllDocuments)
        \/ extract_lambda_backup(r, AllDocuments)
        \/ extract_lambda_v2_put_item(r, AllDocuments)
        \/ extract_lambda_v2(r, AllDocuments)

\* the three extraction handlers on every document
SpecExtract == Init /\ [][NextExtract]_vars

SyncRequests == {1}

NextV1 ==
    \E r \in Runs :
        \/ extract_lambda_put_item(r, SomeDocuments)
        \/ extract_lambda(r, SomeDocuments)

NextAsync(qs) ==
    \E q \in qs :
        \/ analyze_lambda_async_query(q)
        \/ analyze_lambda_async(q)
        \/ process_async_lambda(q)

NextSync(qs, us) ==
    \E q \in qs :
        \/ analyze_lambda_get_object(q)
        \/ analyze_lambda(q)
        \/ analyze_lambda_improved_query(q, us)
        \/ analyze_lambda_improved(q)
        \/ analyze_lambda_final_query(q, us)
        \/ analyze_lambda_final(q)

\* the handlers the stack deploys (cdk/stacks/api_stack.py): extract_lambda,
\* analyze_lambda_async and process_async_lambda, with MaxRequests
\* concurrent analysis requests
NextDeployed == NextV1 \/ NextAsync(Requests)

SpecDeployed == Init /\ [][NextDeployed]_vars

\* every analysis handler of the repository on the one table: request 1 may
\* also be served by one of the synchronous handlers
Next == NextV1 \/ NextSync(SyncRequests, {DefaultUser}) \/ NextAsync(Requests)

Spec == Init /\ [][Next]_vars

NextV2 ==
    \E r \in Runs :
        \/ extract_lambda_v2_put_item(r, SomeDocuments)
        \/ extract_lambda_v2(r, SomeDocuments)

NextResolve(qs) ==
    \E q \in qs :
        \/ analyze_lambda_improved_query(q, {DefaultUser})
        \/ analyze_lambda_improved(q)
        \/ analyze_lambda_final_query(q, {DefaultUser})
        \/ analyze_lambda_final(q)

\* the handlers that resolve a text source, on the blobs extract_lambda_v2
\* writes (which may hold an "Error: ..." text)
NextResolving == NextV2 \/ NextResolve(SyncRequests)

SpecResolve == Init /\ [][NextResolving]_vars

\* the requests that query the status of a run
StatusRequests == Requests \ SyncRequests

NextStatus(qs) ==
    \E q \in qs :
        \/ check_status_lambda(q)
        \/ status_lambda(q)
        \/ history_lambda(q)

\* one analysis request, served by any analysis handler, and status queries
NextPolling ==
    \/ NextV1
    \/ NextSync(SyncRequests, Users)
    \/ NextAsync(SyncRequests)
    \/ NextStatus(StatusRequests)

SpecStatus == Init /\ [][NextPolling]_vars

\* the deployed handlers with their query endpoints (cdk/stacks/api_stack.py):
\* one analysis request by analyze_lambda_async, and status and history
\* queries
NextEndpoints ==
    \/ NextV1
    \/ NextAsync(SyncRequests)
    \/ NextStatus(StatusRequests)

SpecEndpoints == Init /\ [][NextEndpoints]_vars

\* pdf uploads whose OCR text is shorter or longer than the prompt limit
LongDocuments ==
    [SomeDocuments EXCEPT !.exts = {"pdf"},
                          !.ocr = {OcrText(8000), OcrText(20000)}]

\* extract_lambda on such documents with one request served by the
\* synchronous analysis handlers
NextPrompt ==
    \/ \E r \in Runs :
          \/ extract_lambda_put_item(r, LongDocuments)
          \/ extract_lambda(r, LongDocuments)
    \/ NextSync(SyncRequests, {DefaultUser})

SpecPrompt == Init /\ [][NextPrompt]_vars

NextOptions ==
    \/ \E r \in RunIds :
          \/ extract_lambda_options(r)
          \/ extract_lambda_backup_options(r)
          \/ extract_lambda_v2_options(r)
    \/ \E q \in Requests :
          \/ analyze_lambda_options(q)
          \/ analyze_lambda_improved_options(q)
          \/ analyze_lambda_final_options(q)
          \/ analyze_lambda_async_options(q)
          \/ check_status_lambda_options(q)
          \/ status_lambda_options(q)
          \/ history_lambda_options(q)
          \/ presigned_lambda_options(q)

\* OPTIONS requests to every handler behind the API while extract_lambda
\* creates records and blobs
NextPreflight == NextV1 \/ NextOptions

SpecPreflight == Init /\ [][NextPreflight]_vars

\* a docx upload: the handler makes no OCR call and goes through every
\* write of extract_lambda (put_item, put_object, update_item)
DocxDocuments == [SomeDocuments EXCEPT !.exts = {"docx"}]

\* two uploads, each extracted under its own run id, and analysis requests
\* with their workers, for either of them
NextTwoRuns ==
    \/ \E r \in RunIds :
          \/ extract_lambda_put_item(r, DocxDocuments)
          \/ extract_lambda_put_object(r, DocxDocuments)
          \/ extract_lambda_update_extracted(r, DocxDocuments)
          \/ extract_lambda_update_failed(r, DocxDocuments)
    \/ NextAsync(Requests)

SpecTwoRuns == Init /\ [][NextTwoRuns]_vars

(***************************************************************************)
(* Properties.                                                             *)
(***************************************************************************)
\* the record the extraction of run r created
Rec(r) == table[ExtractKey(r)]

InProgress == {"PROCESSING_ASYNC", "ANALYZING"}

Terminal == {"COMPLETED", "FAILED"}

\* every invocation on run r has returned or been killed, and at least the
\* extraction has run
NoInvocationLeft(r) ==
    /\ x[r].pc \in {"done", "killed"}
    /\ \A q \in Requests :
         /\ a[q].run = r => a[q].pc \in {"done", "killed"}
         /\ w[q].run = r => w[q].pc = "done"

\* C1: once every invocation on a run has returned or been killed, the
\* record is COMPLETED, or FAILED with a non-empty errorMessage (or still
\* EXTRACTED, when no analysis is pending); it is never left in EXTRACTING,
\* ANALYZING or PROCESSING_ASYNC with no invocation left to move it.
C1_RunSettles ==
    \A r \in Runs :
        NoInvocationLeft(r) =>
            \/ Rec(r).status \in {"EXTRACTED", "COMPLETED"}
            \/ Rec(r).status = "FAILED" /\ Rec(r).errorMessage.len > 0

\* the status of the record of run r, as the index query finds it
StatusOf(r) ==
    IF Query(table, r) = {} THEN "none" ELSE table[FirstItem(table, r)].status

\* C2: an analyze_lambda_async request that reads PROCESSING_ASYNC or
\* ANALYZING returns 202 'PROCESSING' at once: the invocation ends with
\* that step, which writes nothing to the table and invokes no worker.
C2_InProgressAnswered ==
    [][\A q \in Requests :
          (/\ a[q].pc = "idle"
           /\ a'[q].h = "analyze_lambda_async"
           /\ StatusOf(a'[q].run) \in InProgress)
          => /\ a'[q].pc = "done"
             /\ a'[q].resp.code = 202 /\ a'[q].resp.status = "PROCESSING"
             /\ table' = table
             /\ w' = w
             /\ dispatches' = dispatches
             /\ genCalls' = genCalls]_vars

\* a request was answered 202 while analyze_lambda_improved or analyze_lambda
\* held the run in ANALYZING
C2_Witness ==
    \E q \in Requests :
        /\ a[q].h = "analyze_lambda_async" /\ a[q].pc = "done"
        /\ a[q].status = "ANALYZING" /\ a[q].resp.code = 202
        /\ dispatches[a[q].run] = 0

\* the record of run r, as the index query finds it
ItemOf(r) == IF Query(table, r) = {} THEN NoItem ELSE table[FirstItem(table, r)]

\* the step is request q's read of the record in analyze_lambda_async
AsyncReads(q) == a[q].pc = "idle" /\ a'[q].h = "analyze_lambda_async"

\* the step leaves the table, the workers and the calls of the generation
\* service as they were
NothingStarted ==
    /\ table' = table
    /\ w' = w
    /\ dispatches' = dispatches
    /\ genCalls' = genCalls

C4_WriteAfterCheck ==
    [][\A q \in Requests :
          (a[q].h = "analyze_lambda_async" /\ a[q].pc = "mark"
              /\ a'[q] # a[q])
          => /\ a'[q].pc = "invoke"
             /\ table'[a[q].key].status = "PROCESSING_ASYNC"]_vars

\* two workers dispatched by two requests are running for the same run
C4_Witness ==
    \E q1, q2 \in Requests :
        /\ q1 # q2
        /\ w[q1].run \in Runs /\ w[q1].run = w[q2].run
        /\ w[q1].pc = "invoke" /\ w[q2].pc = "invoke"
        /\ dispatches[w[q1].run] = 2

\* the invocation has written to its record and has not returned yet
XWorking(r) == x[r].pc \notin {"idle", "done", "killed"}

AWorking(q) == a[q].h = "analyze_lambda_async" /\ a[q].pc \in {"invoke", "fail"}

WWorking(q) == w[q].pc \in {"invoke", "complete", "fail"} /\ w[q].key # NoKey

\* C5: once a record is COMPLETED or FAILED, no step of a handler that was
\* already working on it (the extraction handler, analyze_lambda_async, a
\* worker, a duplicate worker) changes the status again.
C5_TerminalAbsorbing ==
    [][/\ \A r \in Runs :
            (XWorking(r) /\ x'[r] # x[r] /\ Rec(r).status \in Terminal)
            => table'[ExtractKey(r)].status = Rec(r).status
       /\ \A q \in Requests :
            /\ (AWorking(q) /\ a'[q] # a[q]
                   /\ table[a[q].key].status \in Terminal)
               => table'[a[q].key].status = table[a[q].key].status
            /\ (WWorking(q) /\ w'[q] # w[q]
                   /\ table[w[q].key].status \in Terminal)
               => table'[w[q].key].status = table[w[q].key].status]_vars

Rank(s) ==
    IF s = "none" THEN 0
    ELSE IF s = "EXTRACTING" THEN 1
    ELSE IF s = "EXTRACTED" THEN 2
    ELSE IF s \in {"ANALYZING", "PROCESSING_ASYNC"} THEN 3
    ELSE 4

\* a change of status from s to t follows
\* EXTRACTING -> EXTRACTED -> (ANALYZING | PROCESSING_ASYNC)
\*            -> (COMPLETED | FAILED), or fails a run that is not terminal
Forward(s, t) ==
    \/ Rank(t) = Rank(s) + 1
    \/ t = "FAILED" /\ s \notin Terminal

\* C6: every change of a record's status moves forward; no write moves a
\* record backward or skips EXTRACTED on the way to an analysis state.
C6_StatusMovesForward ==
    [][\A k \in Keys :
          table'[k].status # table[k].status
          => Forward(table[k].status, table'[k].status)]_vars

\* C7: there is exactly one record for each run id an extraction handler
\* created, and no analysis handler creates a record: every item of the
\* table is the one an extraction put there.
C7_OneRecordPerRun ==
    /\ \A r \in Runs :
         x[r].pc # "idle" => Cardinality({k \in Keys : k.run = r
                                             /\ table[k].exists}) = 1
    /\ \A k \in Keys : table[k].exists => k = ExtractKey(k.run)

\* the text is an error or an apology message, not text of the document
ErrorOnly(t) == t.kind \in {"errorText", "apology"}

\* C8: in every extraction handler, when no strategy produced text because
\* the OCR and vision calls failed, the record ends FAILED with an
\* errorMessage and the caller receives an error response; a run whose
\* text is only an error or apology message is never recorded EXTRACTED.
C8_NoTextIsFailed ==
    \A r \in Runs :
        x[r].pc = "done" =>
            /\ x[r].resp.code = 500 =>
                  Rec(r).status = "FAILED" /\ Rec(r).errorMessage.len > 0
            /\ Rec(r).status = "EXTRACTED" =>
                  ~ErrorOnly(x[r].resp.text) /\ ~ErrorOnly(extracted[r])

\* the invocation has located its record and has not returned yet
ALocated(q) == a[q].pc \notin {"idle", "done", "killed"} /\ a[q].found

WLocated(q) == w[q].pc \notin {"idle", "done"} /\ w[q].key # NoKey

\* the record is FAILED with a message of at most 500 characters
FailedWithMessage(item) ==
    /\ item.status = "FAILED"
    /\ item.errorMessage.len > 0
    /\ item.errorMessage.len <= ErrorCap

\* C9: in every analysis handler, an error raised after the record has been
\* located leaves the record FAILED with an errorMessage of at most 500
\* characters.
C9_ErrorFailsRecord ==
    [][\A q \in Requests :
          /\ (ALocated(q) /\ a'[q].pc = "done" /\ a'[q].resp.code = 500)
             => FailedWithMessage(table'[a[q].key])
          /\ (WLocated(q) /\ w'[q].pc = "done" /\ w'[q].resp.code = 500)
             => FailedWithMessage(table'[w[q].key])]_vars

Supported == {"pdf", "png", "jpg", "jpeg", "tiff", "bmp", "docx"}

\* C10: for every supported file type and every combination of failures of
\* the OCR and vision strategies (the blob store itself accepting the
\* write), an extraction invocation that created a record has written a
\* non-empty blob extracted/<runId>.txt when it returns.
C10_BlobWritten ==
    \A r \in Runs :
        (/\ x[r].pc = "done"
         /\ x[r].ext \in Supported
         /\ "put_error" \notin x[r].calls)
        => ~Falsy(extracted[r]) /\ StripLen(extracted[r]) > 0

\* C11: whatever the length of the text the OCR or the vision model
\* returned, the blob extracted/<runId>.txt an extraction handler stored is
\* at most 15000 characters plus the truncation marker long.
C11_BlobBounded ==
    \A r \in Runs : Len0(extracted[r]) <= TextCap + MarkerLen

\* the fast synchronous OCR step of run r: extract_lambda_v2 accepts its text
\* above V2MinText characters, extract_lambda_backup from BkMinText on
TooShort(r) ==
    IF x[r].h = "extract_lambda_v2" THEN StripLen(extracted[r]) <= V2MinText
    ELSE StripLen(extracted[r]) < BkMinText

\* C12: in extract_lambda_v2 and extract_lambda_backup, for every supported
\* file type, an OCR text shorter than the validity threshold is never the
\* stored extraction result.
C12_ShortTextNotStored ==
    \A r \in Runs :
        (x[r].h \in {"extract_lambda_backup", "extract_lambda_v2"}
            /\ x[r].ext \in Supported /\ extracted[r].kind = "ocr")
        => ~TooShort(r)

\* request q calls the generation service with its text in this step
PromptsText(q) ==
    /\ a[q].h \in {"analyze_lambda_improved", "analyze_lambda_final"}
    /\ a[q].pc \in {"invoke", "text"}
    /\ genCalls'[a[q].run] > genCalls[a[q].run]

\* the text blob the request names is present and valid for handler h
ValidBlob(h, tk, r) ==
    /\ tk # "none"
    /\ ~Falsy(GetText(tk, r))
    /\ ~StartsWithError(GetText(tk, r))
    /\ StripLen(GetText(tk, r)) >=
          (IF h = "analyze_lambda_final" THEN FinMinValid ELSE ImpMinText)

\* C13: in analyze_lambda_improved and analyze_lambda_final a text that
\* begins with "Error:" is never the text of the prompt sent to the
\* generation service, and a valid text blob named by the request is the
\* text used, not the blob at the reconstructed path.
C13_ErrorTextRejected ==
    [][\A q \in Requests :
          /\ PromptsText(q) => ~StartsWithError(a[q].text)
          /\ (a[q].h = "analyze_lambda_improved" /\ a[q].pc = "load"
                /\ ValidBlob(a[q].h, a[q].tk, a[q].run))
             => /\ a'[q].pc = "invoke" /\ a'[q].src = "s3"
                /\ a'[q].text = Slice(GetText(a[q].tk, a[q].run), TextCap)
          /\ (a[q].pc = "idle" /\ a'[q].h = "analyze_lambda_final"
                /\ ValidBlob(a'[q].h, a'[q].tk, a'[q].run))
             => /\ a'[q].pc = "text"
                /\ a'[q].text = GetText(a'[q].tk, a'[q].run)]_vars

\* C14: analyze_lambda_final, given a text blob that starts with "Error:",
\* goes to the document-vision analysis of the original file; when the
\* record names no original file the request is answered with the error
\* "No valid text or document available for analysis" and the record is
\* FAILED.
C14_ErrorTextGoesToVision ==
    [][\A q \in Requests :
          /\ (a[q].pc = "idle" /\ a'[q].h = "analyze_lambda_final"
                /\ StartsWithError(a'[q].text)
                /\ a'[q].fileKey \notin {"none", ""})
             => a'[q].pc = "vision"
          /\ (a[q].h = "analyze_lambda_final" /\ a[q].pc = "text"
                /\ StartsWithError(a[q].text)
                /\ a[q].fileKey \in {"none", ""} /\ a'[q] # a[q])
             => /\ a'[q].pc = "done"
                /\ a'[q].resp.code = 500 /\ a'[q].resp.err.kind = "novalid"
                /\ table'[a[q].key].status = "FAILED"]_vars

\* C15: a pdf whose fast OCR gave too little text, whose asynchronous OCR
\* job used up its polling attempts and whose vision fallback then returned
\* 500 characters ends EXTRACTED, with an extractionMethod on the record
\* that names the vision fallback and a stored blob of those 500 characters.
C15_VisionFallbackRecorded ==
    [][\A r \in Runs :
          (x[r].pc = "mark" /\ x[r].ext = "pdf"
              /\ {"detect", "start", "poll", "vision"} \subseteq x[r].calls
              /\ x[r].attempt = BkMaxTries
              /\ x[r].text = VisionText(500) /\ x[r].textKey = "extracted"
              /\ x'[r].pc = "done")
          => /\ table'[ExtractKey(r)].status = "EXTRACTED"
             /\ table'[ExtractKey(r)].extractionMethod \notin {"none", "textract"}
             /\ extracted'[r] = VisionText(500)]_vars

\* C16: a pdf whose fast synchronous OCR returned 8000 characters of valid
\* text (the only OCR call made, the blob store accepting the write) ends
\* with no vision call, a stored blob of exactly those 8000 characters,
\* status EXTRACTED and extractionMethod = textract.
C16_FastOcrRecorded ==
    \A r \in Runs :
        (x[r].pc = "done" /\ x[r].ext = "pdf"
            /\ x[r].h \in {"extract_lambda_backup", "extract_lambda_v2"}
            /\ x[r].calls \cap {"detect", "start", "poll", "analyze", "put_error"}
                 = {"detect"}
            /\ x[r].resp.code = 200 /\ x[r].resp.text = OcrText(8000))
        => /\ "vision" \notin x[r].calls
           /\ extracted[r] = OcrText(8000)
           /\ Rec(r).status = "EXTRACTED"
           /\ Rec(r).extractionMethod = "textract"

StatusQueries == {"check_status_lambda", "status_lambda"}

\* C17: a status query never reports COMPLETED together with an empty or
\* missing analysis: for a completed run without cached result the result
\* blob is read, and COMPLETED_NO_RESULT reported when that gives nothing.
C17_CompletedHasResult ==
    \A q \in Requests :
        (a[q].h \in StatusQueries /\ a[q].pc = "done"
            /\ a[q].resp.status = "COMPLETED")
        => ~Falsy(a[q].resp.text)

\* C18: no blob is overwritten: once extracted/<runId>.txt or
\* analysis/<runId>.txt holds a content, no later write replaces it.
C18_BlobsWrittenOnce ==
    [][\A r \in RunIds :
          /\ extracted[r].kind # "absent" => extracted'[r] = extracted[r]
          /\ analysis[r].kind # "absent" => analysis'[r] = analysis[r]]_vars

\* C19: a record that carries an errorMessage has status FAILED.
C19_ErrorMessageOnlyOnFailed ==
    \A k \in Keys :
        (table[k].exists /\ table[k].errorMessage # NoErr)
        => table[k].status = "FAILED"

\* the step defers run r: the record is set to PROCESSING_ASYNC and the
\* invocation returns without having called the vision model
Defers(r) ==
    /\ x'[r].pc = "done"
    /\ "vision" \notin x'[r].calls
    /\ table'[ExtractKey(r)].status = "PROCESSING_ASYNC"

\* C20: at the vision-fallback step of extract_lambda_backup and
\* extract_lambda_v2, when the remaining invocation time is below the
\* threshold, the handler sets the record to PROCESSING_ASYNC and returns at
\* once without calling the vision model.
C20_LowTimeDefers ==
    [][\A r \in Runs :
          /\ (x[r].h = "extract_lambda_backup" /\ x[r].pc = "fallback"
                /\ x'[r].resp.code = 202)
             => Defers(r)
          /\ (x[r].h = "extract_lambda_v2" /\ x[r].pc = "bedrock"
                /\ x[r].remaining <= V2QuickThresholdMs /\ x'[r] # x[r])
             => Defers(r)]_vars

\* the size ceiling of the vision function of handler h, in tenths of a MB
Ceiling(h) == IF h = "extract_lambda_v2" THEN V2MaxMB10 ELSE BkVisionMaxMB10

\* C21: in process_with_bedrock_vision and
\* process_document_with_bedrock_direct a document above the size ceiling
\* is rejected before any call of the generation service, and the handler
\* goes on to record the failure instead of storing a substitute text.
C21_OversizeRejected ==
    [][\A r \in Runs :
          (x[r].pc \in {"fallback", "img", "img_retry", "bedrock"}
              /\ x'[r] # x[r] /\ x'[r].sizeMB10 > Ceiling(x[r].h))
          => /\ "vision" \notin x'[r].calls
             /\ x'[r].pc \in {"fail", "img_retry"}]_vars

MaxTries(h) == IF h = "extract_lambda" THEN V1MaxTries ELSE BkMaxTries

\* C22: get_document_analysis ends after at most max_tries polls with one
\* of three outcomes: the response of a SUCCEEDED job, an error raised for a
\* FAILED job, or the timeout error once the attempts are used up; a text is
\* only taken from the response of a job that succeeded.
C22_PollingEnds ==
    [][\A r \in Runs :
          x[r].pc = "poll" =>
              /\ x[r].attempt <= MaxTries(x[r].h)
              /\ x'[r].pc # "poll" =>
                    /\ x'[r].job \in {"SUCCEEDED", "FAILED", "timeout"}
                    /\ x'[r].job = "timeout" =>
                           x[r].attempt = MaxTries(x[r].h)
                    /\ x'[r].text # x[r].text => x'[r].job = "SUCCEEDED"]_vars

\* the record the index gives for run r is missing, or carries no fileKey
NoRecord(r) == Query(table, r) = {}

NoFileKey(r) ==
    /\ ~NoRecord(r)
    /\ table[FirstItem(table, r)].fileKey \in {"none", ""}
    /\ analyze_lambda_async_check(TRUE, table[FirstItem(table, r)]) = "no_file"

\* C23: an analysis request for a run id with no record, or for a record
\* without fileKey, is answered 404 / 400 by analyze_lambda_async, which
\* dispatches no worker and leaves the table and the blobs as they are; and
\* no step of an analysis handler or worker creates an item of the table
C23_UnknownRunRejected ==
    [][/\ \A q \in Requests :
            (a[q].pc = "idle" /\ a'[q].h = "analyze_lambda_async"
                /\ (NoRecord(a'[q].run) \/ NoFileKey(a'[q].run)))
            => /\ a'[q].pc = "done"
               /\ a'[q].resp.code =
                     (IF NoRecord(a'[q].run) THEN 404 ELSE 400)
               /\ UNCHANGED <<table, extracted, analysis, w, dispatches>>
       /\ (a' # a \/ w' # w) =>
             \A k \in Keys : table'[k].exists => table[k].exists]_vars

Queries == StatusQueries \cup {"history_lambda"}

\* C24: a status query or a history query leaves every record and every blob
\* as it is, whatever it is asked and whatever it answers.
C24_QueriesReadOnly ==
    [][\A q \in Requests :
          (a[q].pc = "idle" /\ a'[q].h \in Queries)
          => UNCHANGED <<table, extracted, analysis>>]_vars

\* a status query answered from the result blob of a completed run whose
\* record holds no result
C24_Witness ==
    \E q \in Requests :
        /\ a[q].h = "check_status_lambda" /\ a[q].pc = "done"
        /\ a[q].resp.status = "COMPLETED"
        /\ \E k \in Query(table, a[q].run) :
             table[k].status = "COMPLETED" /\ Falsy(table[k].analysisResult)

\* C25: analyze_lambda_improved resolves the text from the explicit blob,
\* then the record's stored text (unless a '<N> caracteres' placeholder),
\* then extracted/<runId>.txt: when the explicit blob gives nothing and the
\* record holds no usable text, the text of extracted/<runId>.txt is used.
C25_ReconstructedTried ==
    [][\A q \in Requests :
          (a[q].h = "analyze_lambda_improved" /\ a[q].pc = "load"
              /\ a'[q].pc # "load"
              /\ (a[q].tk = "none" \/ Falsy(GetText(a[q].tk, a[q].run)))
              /\ a[q].stored \in {"none", "caracteres"}
              /\ ~Falsy(extracted[a[q].run]))
          => a'[q].src = "s3_reconstructed"]_vars

\* the run records of user u: the items an extraction made in the partition
RunsOf(u) ==
    {k \in Keys : table[k].exists /\ table[k].pk = u /\ table[k].runId # "none"}

\* createdAt of the item at key k (the timestamp of its sort key)
CreatedAt(k) == table[k].sk

\* C26: history_lambda answers with records of the requested user only, at
\* most 50 of them, by descending creation time, and the newest run of the
\* user is the first entry.
C26_NewestRunFirst ==
    [][\A q \in Requests :
          (a[q].pc = "idle" /\ a'[q].h = "history_lambda"
              /\ a'[q].resp.code = 200)
          => LET hist == a'[q].history
                 u == a'[q].pk
             IN  /\ \A i \in 1..Len(hist) : table[hist[i]].pk = u
                 /\ Len(hist) <= HistoryLimit
                 /\ \A i, j \in 1..Len(hist) :
                       i < j => CreatedAt(hist[i]) >= CreatedAt(hist[j])
                 /\ \A k \in RunsOf(u) :
                       (\A o \in RunsOf(u) : CreatedAt(o) <= CreatedAt(k))
                       => Len(hist) > 0 /\ hist[1] = k]_vars

Async(p) == p.h = "analyze_lambda_async"

\* the dispatch of request q was answered 500 and started no worker
DispatchFailed(q) ==
    /\ Async(a[q]) /\ a[q].pc = "done" /\ a[q].found
    /\ a[q].resp.code = 500 /\ w[q].pc = "idle"

\* another request is dispatching, or its worker is running, on run r
OtherDispatch(q, r) ==
    \E o \in Requests \ {q} :
        \/ Async(a[o]) /\ a[o].run = r /\ a[o].pc \in {"invoke", "fail"}
        \/ w[o].run = r /\ w[o].pc \notin {"idle", "done"}

\* C27: analyze_lambda_async sets the record to PROCESSING_ASYNC before it
\* invokes the worker; an invocation that raises starts no worker, sets the
\* record to FAILED with an errorMessage and is answered 500; and the record
\* of a run is not PROCESSING_ASYNC after a failed dispatch, unless another
\* dispatch of that run is under way.
C27_FailedDispatchRecorded ==
    [][\A q \in Requests :
          /\ (Async(a[q]) /\ a[q].pc = "mark" /\ a'[q].pc # "mark")
             => /\ a'[q].pc = "invoke"
                /\ table'[a[q].key].status = "PROCESSING_ASYNC"
                /\ UNCHANGED <<w, dispatches>>
          /\ w'[q] # w[q] /\ w[q].pc = "idle"
             => Async(a[q]) /\ a[q].pc = "invoke"
          /\ (Async(a[q]) /\ a[q].pc = "invoke" /\ a'[q].pc = "fail")
             => UNCHANGED <<w, dispatches>>
          /\ (Async(a[q]) /\ a[q].pc = "fail" /\ a'[q].pc # "fail")
             => /\ table'[a[q].key].status = "FAILED"
                /\ table'[a[q].key].errorMessage # NoErr
                /\ a'[q].pc = "done" /\ a'[q].resp.code = 500
          /\ (DispatchFailed(q)'
                /\ \E k \in Query(table', a'[q].run) :
                      table'[k].status = "PROCESSING_ASYNC")
             => OtherDispatch(q, a[q].run)']_vars

\* a dispatch has failed while the worker of another request runs
C27_Witness ==
    \E q \in Requests :
        /\ DispatchFailed(q)
        /\ Rec(a[q].run).status = "FAILED"
        /\ Rec(a[q].run).errorMessage # NoErr
        /\ \E o \in Requests \ {q} : w[o].run = a[q].run /\ w[o].pc = "done"

\* C28: a record with status EXTRACTED has a textKey, and the blob
\* extracted/<runId>.txt it names exists.
C28_ExtractedHasBlob ==
    \A k \in Keys :
        (table[k].exists /\ table[k].status = "EXTRACTED")
        => /\ table[k].textKey = "extracted"
           /\ extracted[k.run].kind # "absent"

\* C29: a record with status COMPLETED has an analysisKey, and the blob
\* analysis/<runId>.txt it refers to exists.
C29_CompletedHasBlob ==
    \A k \in Keys :
        (table[k].exists /\ table[k].status = "COMPLETED")
        => /\ table[k].analysisKey = "analysis"
           /\ analysis[k.run].kind # "absent"

\* the record of run r was completed by process_async_lambda
CompletedByWorker(r) ==
    \E k \in Query(table, r) :
        /\ table[k].status = "COMPLETED"
        /\ table[k].analysisMethod = "async_bedrock_vision"

\* C30: for a run completed by process_async_lambda, the analysis that
\* check_status_lambda and the cached answer of analyze_lambda_async return
\* is the content of analysis/<runId>.txt, whatever its length.
C30_FullResultReturned ==
    [][\A q \in Requests :
          (a[q].pc = "idle" /\ a'[q].pc = "done"
              /\ a'[q].h \in {"check_status_lambda", "analyze_lambda_async"}
              /\ a'[q].resp.status = "COMPLETED"
              /\ CompletedByWorker(a'[q].run))
          => a'[q].resp.text = analysis[a'[q].run]]_vars

\* what the other status endpoint answers to the record of run r: the one
\* of check_status_lambda to a query of status_lambda, and conversely
OtherEndpoint(h, r) ==
    LET item == table[FirstItem(table, r)]
    IN  IF h = "status_lambda"
        THEN check_status_lambda_response(item, analysis[r])
        ELSE status_lambda_response(item)

\* C31: on the records the deployed handlers make, status_lambda and
\* check_status_lambda report the same status, and for a COMPLETED run the
\* same non-empty analysis.
C31_EndpointsAgree ==
    [][\A q \in Requests :
          (a[q].pc = "idle" /\ a'[q].h \in StatusQueries /\ a'[q].found)
          => LET other == OtherEndpoint(a'[q].h, a'[q].run)
             IN  /\ a'[q].resp.status = other.status
                 /\ a'[q].resp.status = "COMPLETED"
                    => /\ ~Falsy(a'[q].resp.text)
                       /\ a'[q].resp.text = other.text]_vars

\* the step leaves the records and the blobs of every run but r as they are
OthersKept(r) ==
    /\ \A k \in Keys : k.run # r => table'[k] = table[k]
    /\ \A o \in RunIds \ {r} :
         extracted'[o] = extracted[o] /\ analysis'[o] = analysis[o]

\* the records the step creates
Created == {k \in Keys : ~table[k].exists /\ table'[k].exists}

\* C32: a step of an extraction, of an analysis dispatch or of a worker for
\* run r leaves the records and blobs of the other runs unchanged; an
\* extraction creates one record, under a run id no record carried, by its
\* put_item, and no other step creates a record.
C32_RunsIsolated ==
    [][/\ \A r \in RunIds : x'[r] # x[r] => OthersKept(r)
       /\ \A q \in Requests :
            /\ a'[q] # a[q] => OthersKept(a'[q].run)
            /\ w'[q] # w[q] => OthersKept(w'[q].run)
       /\ \A r \in RunIds :
            IF x[r].pc = "idle" /\ x'[r].pc # "idle"
            THEN Query(table, r) = {} /\ Created = {ExtractKey(r)}
                 /\ table'[ExtractKey(r)].runId = r
            ELSE x'[r] # x[r] => Created = {}
       /\ (a' # a \/ w' # w) => Created = {}]_vars

\* two runs side by side: one completed by a worker, the other extracted
\* and never analysed
C32_Witness ==
    \E r, o \in RunIds :
        /\ r # o
        /\ table[ExtractKey(r)].status = "COMPLETED"
        /\ analysis[r].kind # "absent"
        /\ table[ExtractKey(o)].status = "EXTRACTED"
        /\ extracted[o].kind # "absent" /\ analysis[o].kind = "absent"

\* the OCR calls of the step of the extract_lambda invocation r
OcrCalls(r) == x'[r].calls \ x[r].calls

Unsupported(e) == e.kind = "UnsupportedDocumentException"

\* C33: in extract_lambda on a pdf, analyze_document is called only after
\* start_document_text_detection raised the unsupported-document error,
\* detect_document_text only after analyze_document raised it too, and any
\* other error of an OCR call ends the run as FAILED with no further OCR call.
C33_OcrLadder ==
    [][\A r \in RunIds :
          (x[r].h = "extract_lambda" /\ x[r].ext = "pdf")
          => /\ "analyze" \in OcrCalls(r)
                => Unsupported(x[r].first) /\ x[r].calls = {"start"}
             /\ "detect" \in OcrCalls(r)
                => Unsupported(x[r].first) /\ x[r].calls = {"start", "analyze"}
             /\ (x[r].pc \in {"start", "poll", "analyze", "detect"}
                 /\ x'[r].err # NoErr)
                => x'[r].pc = "fail"
             /\ (x[r].pc = "fail" /\ x'[r] # x[r])
                => /\ OcrCalls(r) = {}
                   /\ x'[r].pc = "done"
                   /\ table'[ExtractKey(r)].status = "FAILED"]_vars

C33_Witness ==
    \E r \in RunIds :
        /\ x[r].h = "extract_lambda" /\ x[r].ext = "pdf"
        /\ x[r].calls = {"start", "analyze", "detect"}
        /\ table[ExtractKey(r)].status = "EXTRACTED"

\* C34: for a docx file every extraction handler makes no OCR and no
\* vision-model call, stores the fixed 'DOCX files require preprocessing'
\* message as the extracted text and, when the blob store accepted the
\* write, ends with the record EXTRACTED.
C34_DocxPlaceholder ==
    \A r \in RunIds :
        x[r].ext = "docx"
        => /\ x[r].calls \cap {"start", "poll", "analyze", "detect",
                               "vision"} = {}
           /\ extracted[r].kind # "absent" => extracted[r] = DocxMessage
           /\ (x[r].pc = "done" /\ "put_error" \notin x[r].calls)
              => /\ table[ExtractKey(r)].status = "EXTRACTED"
                 /\ extracted[r] = DocxMessage

\* C35: whenever analyze_lambda, analyze_lambda_improved or
\* analyze_lambda_final sends the extracted text to the generation service,
\* the text part of the prompt is at most 15000 characters.
C35_PromptTextCapped ==
    [][\A q \in Requests :
          (/\ a[q].h \in {"analyze_lambda", "analyze_lambda_improved",
                          "analyze_lambda_final"}
           /\ a[q].pc \in {"invoke", "text"}
           /\ a'[q] # a[q]
           /\ genCalls' # genCalls)
          => a[q].text.len <= TextCap]_vars

\* C36: every handler behind the API answers an OPTIONS request with status
\* 200, without changing a record or a blob and without calling OCR, the
\* generation service or the worker.
C36_PreflightAnswered ==
    [][/\ \A r \in RunIds :
            (x[r].pc = "idle" /\ x'[r].preflight)
            => /\ x'[r].pc = "done" /\ x'[r].resp.code = 200
               /\ x'[r].calls = {}
               /\ UNCHANGED <<table, extracted, analysis, w, genCalls,
                              dispatches>>
       /\ \A q \in Requests :
            (a[q].pc = "idle" /\ a'[q].preflight)
            => /\ a'[q].pc = "done" /\ a'[q].resp.code = 200
               /\ UNCHANGED <<table, extracted, analysis, w, genCalls,
                              dispatches>>]_vars

=============================================================================
